---- MODULE Spec2Model ----
(***************************************************************************)
(* Generation & Scheduling Engine of moonshill.                            *)
(*                                                                         *)
(* Time is counted in minutes since local midnight of day 0.  The values   *)
(* of max_daily_posts that are enumerated divide 1440, so the base         *)
(* interval 24 / max_daily_posts hours is a whole number of minutes.       *)
(*                                                                         *)
(* Database reads are modelled as reads of the current rows.  The fields   *)
(* Campaign.is_active, Campaign.is_paused, Workspace.is_active and         *)
(* Workspace.is_deleted have no writer in the repository: they are drawn   *)
(* in Init and never change.  Campaign.next_run_at is read and written by  *)
(* services/campaign_manager.py and is modelled as a campaign column.      *)
(***************************************************************************)
EXTENDS Integers, Sequences, FiniteSets, TLC

\* ------------------------------------------------------------------ bounds
MaxTime == 1440
MaxCycles == 2
MaxChanges == 1
MaxCalls == 2

\* --------------------------------------------------------------- constants
MinutesPerHour == 60
HoursPerDay == 24
MinutesPerDay == HoursPerDay * MinutesPerHour
SilenceMinHours == 1
SilenceFactor == 2
StopAfterAttempt == 3
WaitMultiplier == 1
WaitMin == 4
WaitMax == 10

Campaigns == {1, 2}
Platforms == {"twitter", "telegram"}
PlatformType == {"twitter", "telegram", "discord"}
PlatformOrder == <<"twitter", "telegram">>
CampaignStatus == {"PENDING", "PAUSED", "RUNNING", "COMPLETED", "CANCELLED"}

\* Values of CampaignSettings.max_daily_posts: the column default, the values
\* found in the rows at start (the column is an unconstrained integer) and the
\* values the settings route writes (it accepts 1..100).
DefaultMaxDailyPosts == 10
StoredMaxDailyPosts == {0, 10}
ApiMaxDailyPosts == {60}
ClockSteps == {720}

\* Inputs of the next-run computation explored on its own.
CalcMaxDailyPosts == {-1, 0, 1, 2, 3, 10, 12, 24, 30, 48, 60, 96}
CalcTimes == {h * MinutesPerHour : h \in 0..23} \cup {MinutesPerDay - 1}
CalcPostsToday(ppd) == {n \in {0, ppd - 1, ppd, ppd + 1} : n >= 0}

Providers == {"openai", "gemini"}
Methods == {"generate", "get_embeddings"}
\* What the API client can raise inside the provider's method.
TransientErrors == {"APIError", "APITimeoutError"}
ClientErrors == TransientErrors \cup {"Exception"}

VARIABLES
  now,                    \* datetime.now(), minutes
  workspace,              \* the Workspace row owning the campaigns
  exists,                 \* Campaign row present
  is_active, is_paused,   \* Campaign.is_active / is_paused
  status,                 \* Campaign.status
  next_run_at,            \* Campaign.next_run_at
  has_settings,           \* a CampaignSettings row exists
  emergency_stop_enabled, \* CampaignSettings.emergency_stop_enabled
  max_daily_posts,        \* CampaignSettings.max_daily_posts
  connected,              \* platforms with PlatformConnection.is_connected
  posts,                  \* SocialPost rows: per campaign, count per day of created_at
  tickPc,                 \* position of shilling_scheduler
  batch,                  \* campaigns of the fetched list not yet visited
  processed,              \* processed_campaigns of the running tick
  queue,                  \* queued run_campaign_shilling tasks, per campaign
  lastCycle,              \* record of the last process_campaign run and of its
                          \* last _calculate_next_run_time call
  cycles, changes,        \* counters bounding the exploration
  calcIn,                 \* arguments of a _calculate_next_run_time call
  calcOut,                \* its outcome
  provider, method,       \* provider call in progress
  attempt_number,         \* tenacity's attempt counter
  callPc,                 \* position of the provider call
  failures,               \* what each attempt of the call raised
  raised,                 \* exception that left the provider call
  waited,                 \* seconds slept between attempts
  calls,                  \* counter bounding the exploration
  genPc,                  \* position of a generate_social_post call
  genIn,                  \* what its collaborators will answer
  context,                \* the generation context it built
  rows,                   \* SocialPost / PostAnalytics / PostPerformance rows it wrote
  genRaised,              \* exception that left generate_social_post
  post_status,            \* SocialPost.status, per post
  statusOp,               \* the last update_post_status / publish_post call
  statusOps,              \* counter bounding the exploration
  fnIn,                   \* arguments of a call of a pure function
  fnOut,                  \* its result
  unitPc,                 \* position of each concurrent unit of work
  unitSeen,               \* what each unit read and did
  post_platform,          \* SocialPost.platform_type, per post
  post_metadata,          \* SocialPost.post_metadata, per post
  sends,                  \* platform client send calls made, per post
  delivered,              \* publish_post calls that delivered the post, per post
  connections,            \* PlatformConnection rows
  next_connection_id,     \* the id the next PlatformConnection row gets
  managed_telegram_bot_id, \* Campaign.managed_telegram_bot_id, 0 for None
  bots,                   \* ManagedTelegramBot rows
  connOp,                 \* the last connection request and its response
  social_posts,           \* post_stage of the stored posts of one campaign, oldest first
  read_at,                \* for each stored post, the number of posts stored when its window was read
  generating,             \* each generation in flight: its position and resolved stage
  current_phase           \* the phase the campaign stays in

schedVars == <<now, workspace, exists, is_active, is_paused, status, next_run_at,
               has_settings, emergency_stop_enabled, max_daily_posts, connected,
               posts, tickPc, batch, processed,
               queue, lastCycle, cycles, changes>>
calcVars == <<calcIn, calcOut>>
retryVars == <<provider, method, attempt_number, callPc, failures, raised, waited, calls>>
genVars == <<genPc, genIn, context, rows, genRaised>>
statusVars == <<post_status, statusOp, statusOps>>
fnVars == <<fnIn, fnOut>>
raceVars == <<unitPc, unitSeen>>
publishVars == <<post_platform, post_metadata, sends, delivered>>
connVars == <<connections, next_connection_id, managed_telegram_bot_id, bots,
              connOp>>
histVars == <<social_posts, read_at, generating, current_phase>>
vars == <<schedVars, calcVars, retryVars, genVars, statusVars, fnVars, raceVars,
          publishVars, connVars, histVars>>

\* ----------------------------------------------------------------- helpers
Days == 0..(MaxTime \div MinutesPerDay)
DayOf(t) == t \div MinutesPerDay
Midnight(t) == DayOf(t) * MinutesPerDay

RECURSIVE Perms(_)
Perms(S) ==
  IF S = {} THEN {<<>>}
  ELSE UNION {{<<x>> \o s : s \in Perms(S \ {x})} : x \in S}

B2N(b) == IF b THEN 1 ELSE 0

SeqToSet(s) == {s[i] : i \in 1..Len(s)}

\* ------------------------------------------------- AntiDetectionService
\* random.randint(min_val, max_val): the values it can return; empty when
\* min_val > max_val, where randint raises ValueError.  The draws explored
\* are the two ends of the range.
RandintDraws(min_val, max_val) ==
  {v \in min_val..max_val : v \in {min_val, max_val}}

UnitMinutes(unit) ==
  IF unit = "minutes" THEN 1
  ELSE IF unit = "hours" THEN MinutesPerHour
  ELSE MinutesPerDay

\* Mutant: the unit argument is ignored and the default unit (days) is added.
add_random_silence_in_days(next_post_time, unit, min_val, max_val, taken, silence_val) ==
  IF ~taken THEN [ok |-> TRUE, time |-> next_post_time]
  ELSE IF min_val > max_val THEN [ok |-> FALSE, time |-> next_post_time]
  ELSE [ok |-> TRUE, time |-> next_post_time + silence_val * UnitMinutes("days")]

\* taken: random.random() < 0.2;  silence_val: the value randint returned.
add_random_silence(next_post_time, unit, min_val, max_val, taken, silence_val) ==
  IF ~taken THEN [ok |-> TRUE, time |-> next_post_time]
  ELSE IF min_val > max_val THEN [ok |-> FALSE, time |-> next_post_time]
  ELSE [ok |-> TRUE, time |-> next_post_time + silence_val * UnitMinutes(unit)]

\* ------------------------------------------------------- CampaignManager
min_hours_between_posts(posts_per_day) == MinutesPerDay \div posts_per_day

\* Mutant: the bound is rounded up instead of truncated.
SilenceMaxHoursRoundedUp(posts_per_day) ==
  (HoursPerDay * SilenceFactor + posts_per_day - 1) \div posts_per_day

\* int(min_hours_between_posts * 2), hours
SilenceMaxHours(posts_per_day) == (HoursPerDay * SilenceFactor) \div posts_per_day

\* Mutant: a non-positive max_daily_posts is clamped to 1 instead of raising.
calculate_next_run_time_clamped(t, posts_per_day, posts_today, taken, silence_val) ==
  LET ppd == IF posts_per_day <= 0 THEN 1 ELSE posts_per_day
      base == t + min_hours_between_posts(ppd)
      sil == add_random_silence(base, "hours", SilenceMinHours,
                                SilenceMaxHours(ppd), taken, silence_val)
  IN IF ~sil.ok
     THEN [ok |-> FALSE, err |-> "ValueError: randint", value |-> 0]
     ELSE IF posts_today >= ppd
          THEN [ok |-> TRUE, err |-> "none", value |-> Midnight(sil.time) + MinutesPerDay]
          ELSE [ok |-> TRUE, err |-> "none", value |-> sil.time]

calculate_next_run_time(t, posts_per_day, posts_today, taken, silence_val) ==
  IF posts_per_day <= 0
  THEN [ok |-> FALSE, err |-> "ValueError: posts_per_day", value |-> 0]
  ELSE
    LET base == t + min_hours_between_posts(posts_per_day)
        sil == add_random_silence(base, "hours", SilenceMinHours,
                                  SilenceMaxHours(posts_per_day), taken, silence_val)
    IN IF ~sil.ok
       THEN [ok |-> FALSE, err |-> "ValueError: randint", value |-> 0]
       ELSE IF posts_today >= posts_per_day
            THEN [ok |-> TRUE, err |-> "none", value |-> Midnight(sil.time) + MinutesPerDay]
            ELSE [ok |-> TRUE, err |-> "none", value |-> sil.time]

NoCalc == [called |-> FALSE, at |-> 0, posts_per_day |-> 0, posts_today |-> 0,
           taken |-> FALSE, silence_val |-> 0, ok |-> FALSE, err |-> "none", value |-> 0]

\* A call of _calculate_next_run_time with what it returned or raised.
CalcRecord(t, ppd, ptoday, taken, sv) ==
  LET r == calculate_next_run_time(t, ppd, ptoday, taken, sv)
  IN [called |-> TRUE, at |-> t, posts_per_day |-> ppd, posts_today |-> ptoday,
      taken |-> taken, silence_val |-> IF taken THEN sv ELSE 0,
      ok |-> r.ok, err |-> r.err, value |-> r.value]

fetch_eligible_campaigns ==
  {c \in Campaigns : /\ exists[c]
                     /\ is_active[c]
                     /\ ~is_paused[c]
                     /\ status[c] = "RUNNING"
                     /\ next_run_at[c] <= now}

\* Mutant: the emergency stop is not looked at.
check_campaign_is_eligible_without_stop(c) ==
  IF workspace.is_deleted THEN FALSE
  ELSE IF ~workspace.is_active THEN FALSE
  ELSE IF ~has_settings[c] THEN FALSE
  ELSE IF connected[c] = {} THEN FALSE
  ELSE IF status[c] # "RUNNING" THEN FALSE
  ELSE IF next_run_at[c] > now THEN FALSE
  ELSE TRUE

check_campaign_is_eligible(c) ==
  IF workspace.is_deleted THEN FALSE
  ELSE IF ~workspace.is_active THEN FALSE
  ELSE IF ~has_settings[c] THEN FALSE
  ELSE IF emergency_stop_enabled[c] THEN FALSE
  ELSE IF connected[c] = {} THEN FALSE
  ELSE IF status[c] # "RUNNING" THEN FALSE
  ELSE IF next_run_at[c] > now THEN FALSE
  ELSE TRUE

\* One run of the loop over platform_connections of process_campaign.
\*   conns   : the connections still to visit, in query order
\*   inp     : genFail (platforms whose generate_social_post raises),
\*             taken (platforms at which the silence branch is taken),
\*             silence_val (the randint draw)
\*   acc     : tried, posted, created (posts committed), calc, rearmed, next
RECURSIVE PlatformLoop(_, _, _, _)
PlatformLoop(c, conns, inp, acc) ==
  IF conns = <<>> THEN acc
  ELSE
    LET p == Head(conns) IN
    IF p \in inp.genFail
    THEN PlatformLoop(c, Tail(conns), inp, [acc EXCEPT !.tried = Append(@, p)])
    ELSE
      LET created == acc.created + 1
          calc == CalcRecord(now, max_daily_posts[c],
                             posts[c][DayOf(now)] + created,
                             p \in inp.taken, inp.silence_val)
          acc1 == [acc EXCEPT !.tried = Append(@, p),
                              !.posted = Append(@, p),
                              !.created = created,
                              !.calc = calc,
                              !.errs = IF calc.ok THEN @ ELSE @ \cup {calc.err}]
      IN IF calc.ok
         THEN [acc1 EXCEPT !.rearmed = TRUE, !.next = calc.value]
         ELSE PlatformLoop(c, Tail(conns), inp, acc1)

EmptyAcc == [tried |-> <<>>, posted |-> <<>>, created |-> 0, calc |-> NoCalc,
             errs |-> {}, rearmed |-> FALSE, next |-> 0]

NoCycle == [outcome |-> "none", campaign |-> 0, by |-> "none", tried |-> <<>>,
            posted |-> <<>>, errs |-> {}, calc |-> NoCalc]

CycleRecord(c, outcome, by, acc) ==
  [outcome |-> outcome, campaign |-> c, by |-> by, tried |-> acc.tried,
   posted |-> acc.posted, errs |-> acc.errs, calc |-> acc.calc]

SilenceInputs(c) ==
  IF max_daily_posts[c] > 0 /\ RandintDraws(SilenceMinHours, SilenceMaxHours(max_daily_posts[c])) # {}
  THEN RandintDraws(SilenceMinHours, SilenceMaxHours(max_daily_posts[c]))
  ELSE {0}

\* The connected PlatformConnection rows of a campaign, in the order of the query.
platform_connections(c) == SelectSeq(PlatformOrder, LAMBDA p : p \in connected[c])

\* Mutant: next_run_at is advanced whether or not a post was generated.
commit_next_run_always(c, acc) ==
  [next_run_at EXCEPT ![c] = IF acc.rearmed THEN acc.next
                            ELSE now + min_hours_between_posts(DefaultMaxDailyPosts)]

\* campaign.next_run_at = ...; db.commit(): reached only after a post was
\* generated and the next-run computation returned.
commit_next_run(c, acc) ==
  IF acc.rearmed THEN [next_run_at EXCEPT ![c] = acc.next] ELSE next_run_at

\* process_campaign(campaign_id), called by `by`.
process_campaign(c, by) ==
  /\ cycles < MaxCycles
  /\ cycles' = cycles + 1
  /\ IF ~exists[c]
     THEN /\ lastCycle' = CycleRecord(c, "no_campaign", by, EmptyAcc)
          /\ UNCHANGED <<next_run_at, posts>>
     ELSE IF ~has_settings[c]
     THEN /\ lastCycle' = CycleRecord(c, "no_settings", by, EmptyAcc)
          /\ UNCHANGED <<next_run_at, posts>>
     ELSE IF connected[c] = {}
     THEN /\ lastCycle' = CycleRecord(c, "no_platforms", by, EmptyAcc)
          /\ UNCHANGED <<next_run_at, posts>>
     ELSE
       \E genFail \in SUBSET connected[c], taken \in SUBSET connected[c],
          sv \in SilenceInputs(c) :
         LET acc == PlatformLoop(c, platform_connections(c),
                                 [genFail |-> genFail, taken |-> taken, silence_val |-> sv],
                                 EmptyAcc)
             outcome == IF acc.posted = <<>> THEN "all_failed"
                        ELSE IF acc.rearmed THEN "posted"
                        ELSE "calc_error"
         IN /\ posts' = [posts EXCEPT ![c][DayOf(now)] = @ + acc.created]
            /\ next_run_at' = commit_next_run(c, acc)
            /\ lastCycle' = CycleRecord(c, outcome, by, acc)

dbRows == <<workspace, exists, is_active, is_paused, status, has_settings,
            emergency_stop_enabled, max_daily_posts, connected>>
tickState == <<tickPc, batch, processed, queue, cycles>>

\* shilling_scheduler starts: process_eligible_campaigns fetches the list.
\* The query has no ORDER BY: the list comes in any order.
TickFetch ==
  /\ tickPc = "idle"
  /\ \E order \in Perms(fetch_eligible_campaigns) : batch' = order
  /\ processed' = {}
  /\ tickPc' = "running"
  /\ UNCHANGED <<now, dbRows, next_run_at, posts, queue, lastCycle, cycles, changes>>
  /\ UNCHANGED <<calcVars, retryVars, genVars, statusVars, fnVars, raceVars, publishVars, connVars, histVars>>

\* One iteration of the loop of process_eligible_campaigns.
\* dbFault: a database error raised by the queries of check_campaign_is_eligible
\* ("check", outside the try) or by those at the head of process_campaign
\* ("process", inside the try).
TickStep ==
  /\ tickPc = "running"
  /\ batch # <<>>
  /\ LET c == Head(batch) IN
     \E dbFault \in {"none", "check", "process"} :
       IF dbFault = "check"
       THEN /\ tickPc' = "idle"
            /\ batch' = <<>>
            /\ processed' = {}
            /\ UNCHANGED <<next_run_at, posts, lastCycle, cycles>>
       ELSE /\ tickPc' = tickPc
            /\ batch' = Tail(batch)
            /\ IF ~check_campaign_is_eligible(c)
               THEN UNCHANGED <<processed, next_run_at, posts, lastCycle, cycles>>
               ELSE IF dbFault = "process"
               THEN /\ cycles < MaxCycles
                    /\ cycles' = cycles + 1
                    /\ lastCycle' = CycleRecord(c, "db_error", "tick", EmptyAcc)
                    /\ UNCHANGED <<processed, next_run_at, posts>>
               ELSE /\ process_campaign(c, "tick")
                    /\ processed' = processed \cup {c}
  /\ UNCHANGED <<now, dbRows, queue, changes>>
  /\ UNCHANGED <<calcVars, retryVars, genVars, statusVars, fnVars, raceVars, publishVars, connVars, histVars>>

\* process_eligible_campaigns returned: shilling_scheduler queues one
\* run_campaign_shilling task for each campaign of the returned list.
TickQueue ==
  /\ tickPc = "running"
  /\ batch = <<>>
  /\ queue' = [c \in Campaigns |-> queue[c] + B2N(c \in processed)]
  /\ processed' = {}
  /\ tickPc' = "idle"
  /\ UNCHANGED <<now, dbRows, next_run_at, posts, batch, lastCycle, cycles, changes>>
  /\ UNCHANGED <<calcVars, retryVars, genVars, statusVars, fnVars, raceVars, publishVars, connVars, histVars>>

\* A worker runs a queued run_campaign_shilling task.
run_campaign_shilling ==
  /\ \E c \in Campaigns :
       /\ queue[c] > 0
       /\ process_campaign(c, "task")
       /\ queue' = [queue EXCEPT ![c] = @ - 1]
  /\ UNCHANGED <<now, dbRows, tickPc, batch, processed, changes>>
  /\ UNCHANGED <<calcVars, retryVars, genVars, statusVars, fnVars, raceVars, publishVars, connVars, histVars>>

\* Wall-clock time passes.  A clock step is hours long and a tick lasts
\* seconds, so the clock is stepped between ticks.
AdvanceClock ==
  /\ tickPc = "idle"
  /\ \E d \in ClockSteps :
       /\ now + d <= MaxTime
       /\ now' = now + d
  /\ UNCHANGED <<dbRows, next_run_at, posts, tickState, lastCycle, changes>>
  /\ UNCHANGED <<calcVars, retryVars, genVars, statusVars, fnVars, raceVars, publishVars, connVars, histVars>>

\* ------------------------------------------------------------------ routes
Edit ==
  /\ changes < MaxChanges
  /\ changes' = changes + 1
  /\ UNCHANGED <<now, workspace, is_active, is_paused, next_run_at, posts, tickState,
                 lastCycle>>
  /\ UNCHANGED <<calcVars, retryVars, genVars, statusVars, fnVars, raceVars, publishVars, connVars, histVars>>

\* round(): to the nearest integer, a tie to the even one.
Round(num, den) ==
  LET q == num \div den
      r == num % den
  IN IF 2 * r < den THEN q
     ELSE IF 2 * r > den THEN q + 1
     ELSE IF q % 2 = 0 THEN q ELSE q + 1

CompletionBonus == 16
PublishThreshold == 70

\* get_campaign_completion_percentage, on the numbers of completed and of
\* counted fields: round(((completed / total) * 100) + 16), 0 without fields.
get_campaign_completion_percentage(completed, total) ==
  IF total > 0 THEN Round(completed * 100, total) + CompletionBonus ELSE 0

ToggleResponse(code, st, detail) == [fn |-> "toggle", code |-> code, status |-> st,
                                     detail |-> detail]

\* Mutant: the connected platforms are not counted.
toggle_publish_response_uncounted(found, st, completed_percentage, n, email) ==
  IF ~found THEN ToggleResponse(404, st, "Campaign not found")
  ELSE IF st = "RUNNING" THEN ToggleResponse(200, "PAUSED", "Campaign paused successfully")
  ELSE IF st \in {"PAUSED", "PENDING"}
  THEN IF completed_percentage < PublishThreshold
       THEN ToggleResponse(400, st, "not ready to be published")
       ELSE IF email = "raises"
       THEN ToggleResponse(500, "RUNNING", "Internal Server Error")
       ELSE ToggleResponse(200, "RUNNING", "Campaign published successfully")
  ELSE IF st = "COMPLETED" THEN ToggleResponse(400, st, "already completed")
  ELSE IF st = "CANCELLED" THEN ToggleResponse(400, st, "cancelled")
  ELSE ToggleResponse(200, st, "null")

\* GET /campaigns/toggle-publish/{campaign_id}: the response and the status
\* the campaign is left with.
\*   found : the campaign row exists in the workspace
\*   n     : the count of connected PlatformConnection rows
\*   email : what queuing the notification email does ("none": the
\*           workspace has no notification_email)
toggle_publish_response(found, st, completed_percentage, n, email) ==
  IF ~found THEN ToggleResponse(404, st, "Campaign not found")
  ELSE IF st = "RUNNING" THEN ToggleResponse(200, "PAUSED", "Campaign paused successfully")
  ELSE IF st \in {"PAUSED", "PENDING"}
  THEN IF completed_percentage < PublishThreshold
       THEN ToggleResponse(400, st, "not ready to be published")
       ELSE IF n < 1
       THEN ToggleResponse(400, st, "connect at least one platform")
       ELSE IF email = "raises"
       THEN \* the status was committed before the email is queued
            ToggleResponse(500, "RUNNING", "Internal Server Error")
       ELSE ToggleResponse(200, "RUNNING", "Campaign published successfully")
  ELSE IF st = "COMPLETED" THEN ToggleResponse(400, st, "already completed")
  ELSE IF st = "CANCELLED" THEN ToggleResponse(400, st, "cancelled")
  ELSE ToggleResponse(200, st, "null")

\* The route as the scheduler sees it: the calls that change the status, for
\* a campaign filled in far enough to be published.
toggle_publish(c) ==
  /\ Edit
  /\ exists[c]
  /\ LET r == toggle_publish_response(exists[c], status[c], PublishThreshold,
                                      Cardinality(connected[c]), "none")
     IN /\ r.status # status[c]
        /\ status' = [status EXCEPT ![c] = r.status]
  /\ UNCHANGED <<exists, has_settings, emergency_stop_enabled, max_daily_posts, connected>>

\* PUT /settings: creates the settings row when it is missing, then sets one field.
update_campaign_settings(c) ==
  /\ Edit
  /\ exists[c]
  /\ has_settings' = [has_settings EXCEPT ![c] = TRUE]
  /\ \/ /\ emergency_stop_enabled' = [emergency_stop_enabled EXCEPT ![c] = ~@]
        /\ UNCHANGED max_daily_posts
     \/ /\ \E v \in ApiMaxDailyPosts : max_daily_posts' = [max_daily_posts EXCEPT ![c] = v]
        /\ UNCHANGED emergency_stop_enabled
  /\ UNCHANGED <<exists, status, connected>>

disconnect_platform(c) ==
  /\ Edit
  /\ exists[c]
  /\ \E p \in connected[c] : connected' = [connected EXCEPT ![c] = @ \ {p}]
  /\ UNCHANGED <<exists, status, has_settings, emergency_stop_enabled, max_daily_posts>>

delete_campaign(c) ==
  /\ Edit
  /\ exists[c]
  /\ exists' = [exists EXCEPT ![c] = FALSE]
  /\ UNCHANGED <<status, has_settings, emergency_stop_enabled, max_daily_posts, connected>>

\* --------------------------------------------------------------- scheduler
\* Number of fields in which the rows at start differ from the column
\* defaults of models/ (running campaigns with both platforms connected).
\* Campaigns are interchangeable (TickFetch takes the fetched list in any
\* order), so the rows of campaign 1 carry the differences.
InitDeviations ==
  B2N(workspace.is_deleted) + B2N(~workspace.is_active)
  + B2N(~is_active[1]) + B2N(is_paused[1]) + B2N(~has_settings[1])
  + B2N(max_daily_posts[1] # DefaultMaxDailyPosts)

CalcIdle ==
  /\ calcIn = [at |-> 0, posts_per_day |-> 0, posts_today |-> 0]
  /\ calcOut = NoCalc

RetryIdle ==
  /\ provider = "none"
  /\ method = "none"
  /\ attempt_number = 0
  /\ callPc = "idle"
  /\ failures = <<>>
  /\ raised = "none"
  /\ waited = 0
  /\ calls = 0

NoContext == [market_data |-> "None", trending_topics |-> <<>>, recent_posts |-> <<>>]
NoRows == [SocialPost |-> 0, PostAnalytics |-> 0, PostPerformance |-> 0]

GenIdle ==
  /\ genPc = "idle"
  /\ genIn = [project_token_address |-> FALSE, trending |-> "empty", news |-> "empty",
              market |-> "empty", movements |-> "empty", llm |-> "text", db |-> "none"]
  /\ context = NoContext
  /\ rows = NoRows
  /\ genRaised = "none"

NoStatusOp == [op |-> "none", post_id |-> 0, status |-> "none", result |-> "none"]

StatusIdle ==
  /\ post_status = <<>>
  /\ statusOp = NoStatusOp
  /\ statusOps = 0

NoFn == [fn |-> "none"]

FnIdle ==
  /\ fnIn = NoFn
  /\ fnOut = NoFn

\* Units of work that can run at the same time: two consecutive firings of
\* shilling_scheduler and a GET /campaigns/{id}/generate-post request.
Ticks == {"tick_a", "tick_b"}
Units == Ticks \cup {"generate_post"}

NoSeen == [campaign |-> 0, checked |-> FALSE, next_run_at |-> 0, posted |-> FALSE]

RaceIdle ==
  /\ unitPc = [u \in Units |-> "idle"]
  /\ unitSeen = [u \in Units |-> NoSeen]

PublishIdle ==
  /\ post_platform = <<>>
  /\ post_metadata = <<>>
  /\ sends = <<>>
  /\ delivered = <<>>

NoConnOp == [op |-> "none", campaign_id |-> 0, platform |-> "none", code |-> 0]

ConnIdle ==
  /\ connections = {}
  /\ next_connection_id = 1
  /\ managed_telegram_bot_id = <<>>
  /\ bots = <<>>
  /\ connOp = NoConnOp

\* a generation that is not running
NoGeneration == [pc |-> "idle", stage |-> "none", read_at |-> 0]

\* the processes that call generate_social_post: the task worker
\* (run_campaign_shilling) and the API server (the generate-post route)
Generators == {"worker", "api"}

HistIdle ==
  /\ social_posts = <<>>
  /\ read_at = <<>>
  /\ generating = [g \in Generators |-> NoGeneration]
  /\ current_phase = "early"

OthersIdle == GenIdle /\ StatusIdle /\ FnIdle

\* The scheduler at rest, but for the rows publish_post reads: the Campaign
\* row, the CampaignSettings row and its emergency stop.
SchedRestIdle ==
  /\ now = 0
  /\ workspace = [is_active |-> TRUE, is_deleted |-> FALSE]
  /\ is_active = [c \in Campaigns |-> TRUE]
  /\ is_paused = [c \in Campaigns |-> FALSE]
  /\ status = [c \in Campaigns |-> "RUNNING"]
  /\ next_run_at = [c \in Campaigns |-> 0]
  /\ max_daily_posts = [c \in Campaigns |-> DefaultMaxDailyPosts]
  /\ connected = [c \in Campaigns |-> Platforms]
  /\ posts = [c \in Campaigns |-> [d \in Days |-> 0]]
  /\ tickPc = "idle"
  /\ batch = <<>>
  /\ processed = {}
  /\ queue = [c \in Campaigns |-> 0]
  /\ lastCycle = NoCycle
  /\ cycles = 0
  /\ changes = 0

SchedIdle ==
  /\ SchedRestIdle
  /\ exists = [c \in Campaigns |-> TRUE]
  /\ has_settings = [c \in Campaigns |-> TRUE]
  /\ emergency_stop_enabled = [c \in Campaigns |-> FALSE]

Init ==
  /\ now = 0
  /\ workspace \in [is_active : BOOLEAN, is_deleted : BOOLEAN]
  /\ is_active \in [Campaigns -> BOOLEAN]
  /\ is_paused \in [Campaigns -> BOOLEAN]
  /\ \A c \in Campaigns \ {1} : is_active[c] /\ ~is_paused[c]
  /\ exists = [c \in Campaigns |-> TRUE]
  /\ status = [c \in Campaigns |-> "RUNNING"]
  /\ next_run_at = [c \in Campaigns |-> 0]
  /\ has_settings \in [Campaigns -> BOOLEAN]
  /\ \A c \in Campaigns \ {1} : has_settings[c]
  /\ emergency_stop_enabled = [c \in Campaigns |-> FALSE]
  /\ max_daily_posts \in [Campaigns -> StoredMaxDailyPosts]
  /\ \A c \in Campaigns \ {1} : max_daily_posts[c] = DefaultMaxDailyPosts
  /\ connected = [c \in Campaigns |-> Platforms]
  /\ changes = InitDeviations
  /\ changes <= MaxChanges
  /\ posts = [c \in Campaigns |-> [d \in Days |-> 0]]
  /\ tickPc = "idle"
  /\ batch = <<>>
  /\ processed = {}
  /\ queue = [c \in Campaigns |-> 0]
  /\ lastCycle = NoCycle
  /\ cycles = 0
  /\ CalcIdle
  /\ RetryIdle
  /\ HistIdle
  /\ ConnIdle
  /\ PublishIdle
  /\ RaceIdle
  /\ OthersIdle

Next ==
  \/ TickFetch
  \/ TickStep
  \/ TickQueue
  \/ run_campaign_shilling
  \/ AdvanceClock
  \/ \E c \in Campaigns : toggle_publish(c)
  \/ \E c \in Campaigns : update_campaign_settings(c)
  \/ \E c \in Campaigns : disconnect_platform(c)
  \/ \E c \in Campaigns : delete_campaign(c)

Spec == Init /\ [][Next]_vars

\* ------------------------------------------------------------ entry points
\* Quotas below the default that PUT /settings accepts (1 <= maxDailyPosts <= 100).
LowMaxDailyPosts == {1, 2}

\* GET /campaigns/{campaign_id}/generate-post: 404 without the campaign row,
\* otherwise process_campaign, with no eligibility check before it.
generate_post(c) ==
  /\ exists[c]
  /\ process_campaign(c, "route")
  /\ UNCHANGED <<now, dbRows, tickPc, batch, processed, queue, changes>>
  /\ UNCHANGED <<calcVars, retryVars, genVars, statusVars, fnVars, raceVars, publishVars, connVars, histVars>>

\* One running campaign with both platforms connected and a low daily quota;
\* the other campaign of the workspace is paused.
EntryInit ==
  /\ now = 0
  /\ workspace = [is_active |-> TRUE, is_deleted |-> FALSE]
  /\ is_active = [c \in Campaigns |-> TRUE]
  /\ is_paused = [c \in Campaigns |-> c # 1]
  /\ exists = [c \in Campaigns |-> TRUE]
  /\ status = [c \in Campaigns |-> IF c = 1 THEN "RUNNING" ELSE "PAUSED"]
  /\ next_run_at = [c \in Campaigns |-> 0]
  /\ has_settings = [c \in Campaigns |-> TRUE]
  /\ emergency_stop_enabled = [c \in Campaigns |-> FALSE]
  /\ \E v \in LowMaxDailyPosts :
       max_daily_posts = [c \in Campaigns |-> IF c = 1 THEN v ELSE DefaultMaxDailyPosts]
  /\ connected = [c \in Campaigns |-> Platforms]
  /\ changes = 0
  /\ posts = [c \in Campaigns |-> [d \in Days |-> 0]]
  /\ tickPc = "idle"
  /\ batch = <<>>
  /\ processed = {}
  /\ queue = [c \in Campaigns |-> 0]
  /\ lastCycle = NoCycle
  /\ cycles = 0
  /\ CalcIdle
  /\ RetryIdle
  /\ HistIdle
  /\ ConnIdle
  /\ PublishIdle
  /\ RaceIdle
  /\ OthersIdle

EntryNext ==
  \/ TickFetch
  \/ TickStep
  \/ TickQueue
  \/ run_campaign_shilling
  \/ AdvanceClock
  \/ \E c \in Campaigns : generate_post(c)
  \/ \E c \in Campaigns : toggle_publish(c)
  \/ \E c \in Campaigns : update_campaign_settings(c)
  \/ \E c \in Campaigns : disconnect_platform(c)
  \/ \E c \in Campaigns : delete_campaign(c)

SpecEntry == EntryInit /\ [][EntryNext]_vars

\* The same campaigns with the scheduler, its queued tasks and the editing
\* routes only.
SpecQuota == EntryInit /\ [][Next]_vars

\* ------------------------------------------------------- toggle-publish
\* Field counts of a campaign: none, eight or twenty counted fields.
FieldTotals == {0, 8, 20}
EmailOutcomes == {"none", "queued", "raises"}

ToggleInit ==
  /\ SchedIdle
  /\ CalcIdle
  /\ RetryIdle
  /\ HistIdle
  /\ ConnIdle
  /\ PublishIdle
  /\ RaceIdle
  /\ GenIdle
  /\ StatusIdle
  /\ fnOut = NoFn
  /\ \E found \in BOOLEAN, st \in CampaignStatus, total \in FieldTotals,
        n \in 0..Cardinality(Platforms), email \in EmailOutcomes :
       \E completed \in 0..total :
         fnIn = [fn |-> "toggle", found |-> found, status |-> st,
                 completed |-> completed, total |-> total, n |-> n, email |-> email]

TogglePublish ==
  /\ fnIn.fn = "toggle"
  /\ fnOut = NoFn
  /\ fnOut' = toggle_publish_response(
                fnIn.found, fnIn.status,
                get_campaign_completion_percentage(fnIn.completed, fnIn.total),
                fnIn.n, fnIn.email)
  /\ UNCHANGED <<fnIn, schedVars, calcVars, retryVars, genVars, statusVars, raceVars, publishVars, connVars, histVars>>

ToggleNext == TogglePublish

SpecToggle == ToggleInit /\ [][ToggleNext]_vars

\* ---------------------------------------------------- platform connections
MaxConnections == 3

Bots == {1, 2}
\* Bot ids a callback may name: the bots and an id without a row.
BotIds == Bots \cup {3}
\* Values of ManagedTelegramBot.max_campaigns tried.
BotLimits == {1, 2}

ConnOp(op, c, platform, code) ==
  [op |-> op, campaign_id |-> c, platform |-> platform, code |-> code]

ConnectionRow(id, c, platform, is_connected) ==
  [id |-> id, campaign_id |-> c, platform |-> platform, is_connected |-> is_connected]

NoRow == ConnectionRow(0, 0, "none", FALSE)

\* The PlatformConnection rows of a campaign and platform.
rows_of(c, platform) ==
  {r \in connections : r.campaign_id = c /\ r.platform = platform}

\* query.first() without ORDER BY: None for no row, otherwise any of the rows.
query_first(matching) == IF matching = {} THEN {NoRow} ELSE matching

\* bot.connected_campaigns
connected_campaigns(b) == {c \in Campaigns : managed_telegram_bot_id[c] = b}

\* The bots the query of initiate_telegram_connection can return: active,
\* not exclusive, with fewer campaigns than max_campaigns.
available_bots ==
  {b \in Bots : /\ bots[b].is_active
                /\ ~bots[b].is_exclusive
                /\ Cardinality(connected_campaigns(b)) < bots[b].max_campaigns}

\* The request is answered with an error and nothing is written.
ConnReject(op, c, platform, code) ==
  /\ connOp' = ConnOp(op, c, platform, code)
  /\ UNCHANGED <<connections, next_connection_id, managed_telegram_bot_id, bots>>

\* A new PlatformConnection row, not connected, is committed.
AddConnection(c, platform) ==
  /\ next_connection_id <= MaxConnections
  /\ connections' = connections \cup
                      {ConnectionRow(next_connection_id, c, platform, FALSE)}
  /\ next_connection_id' = next_connection_id + 1
  /\ connOp' = ConnOp("initiate", c, platform, 200)
  /\ UNCHANGED <<managed_telegram_bot_id, bots>>

\* POST /platforms/connect, with initiate_twitter_connection and
\* initiate_telegram_connection.
initiate_platform_connection(c, platform) ==
  /\ IF ~exists[c]
     THEN ConnReject("initiate", c, platform, 404)
     ELSE \E existing_connection \in query_first(rows_of(c, platform)) :
       IF existing_connection.is_connected
       THEN ConnReject("initiate", c, platform, 400)
       ELSE IF platform = "twitter"
       THEN AddConnection(c, platform)
       ELSE IF platform = "telegram"
       THEN IF status[c] \notin {"PENDING", "PAUSED"}
            THEN ConnReject("initiate", c, platform, 400)
            ELSE IF managed_telegram_bot_id[c] # 0
            THEN ConnReject("initiate", c, platform, 400)
            ELSE IF available_bots = {}
            THEN ConnReject("initiate", c, platform, 400)
            ELSE AddConnection(c, platform)
       ELSE ConnReject("initiate", c, platform, 501)
  /\ UNCHANGED <<schedVars, calcVars, retryVars, genVars, statusVars, fnVars, raceVars,
                 publishVars, histVars>>

\* verify_twitter_callback for the state issued with row `id`.  The row is
\* looked up among the rows not yet connected; it is set connected and
\* committed; the delete of the campaign's other Twitter rows that follows is
\* never committed and is rolled back when the session closes.
verify_twitter_callback(id, token_fetched) ==
  /\ id < next_connection_id
  /\ LET found == {r \in connections :
                     r.id = id /\ r.platform = "twitter" /\ ~r.is_connected}
     IN IF found = {}
        THEN ConnReject("twitter_callback", 0, "twitter", 400)
        ELSE LET platform_conn == CHOOSE r \in found : TRUE IN
             IF ~token_fetched
             THEN ConnReject("twitter_callback", platform_conn.campaign_id, "twitter", 400)
             ELSE /\ connections' = (connections \ {platform_conn}) \cup
                                      {[platform_conn EXCEPT !.is_connected = TRUE]}
                  /\ connOp' = ConnOp("twitter_callback", platform_conn.campaign_id,
                                      "twitter", 200)
                  /\ UNCHANGED <<next_connection_id, managed_telegram_bot_id, bots>>
  /\ UNCHANGED <<schedVars, calcVars, retryVars, genVars, statusVars, fnVars, raceVars,
                 publishVars, histVars>>

\* Mutant: the callback does not compare the bot's campaigns with max_campaigns.
bot_refuses_unlimited(b, c) ==
  \/ bots[b].is_exclusive
  \/ c \in connected_campaigns(b)
  \/ ~bots[b].is_active

\* The tests of verify_telegram_callback on the bot: full, exclusive,
\* already connected to this campaign, inactive.
bot_refuses(b, c) ==
  \/ Cardinality(connected_campaigns(b)) >= bots[b].max_campaigns
  \/ bots[b].is_exclusive
  \/ c \in connected_campaigns(b)
  \/ ~bots[b].is_active

\* verify_telegram_callback for the state issued with row `id`.  The state is
\* base64 JSON held by the caller: bot_id is whatever the caller sends.
verify_telegram_callback(id, bot_id) ==
  /\ id < next_connection_id
  /\ LET found == {r \in connections : r.id = id /\ r.platform = "telegram"}
     IN IF found = {}
        THEN ConnReject("telegram_callback", 0, "telegram", 400)
        ELSE LET platform_conn == CHOOSE r \in found : TRUE
                 c == platform_conn.campaign_id
             IN IF ~exists[c]
                THEN ConnReject("telegram_callback", c, "telegram", 400)
                ELSE IF bot_id \notin Bots
                THEN ConnReject("telegram_callback", c, "telegram", 400)
                ELSE IF status[c] \notin {"PENDING", "PAUSED"}
                THEN ConnReject("telegram_callback", c, "telegram", 400)
                ELSE IF bot_refuses(bot_id, c)
                THEN ConnReject("telegram_callback", c, "telegram", 400)
                ELSE /\ managed_telegram_bot_id' =
                          [managed_telegram_bot_id EXCEPT ![c] = bot_id]
                     /\ connections' =
                          (connections \ rows_of(c, "telegram")) \cup
                            {[platform_conn EXCEPT !.is_connected = TRUE]}
                     /\ connOp' = ConnOp("telegram_callback", c, "telegram", 200)
                     /\ UNCHANGED <<next_connection_id, bots>>
  /\ UNCHANGED <<schedVars, calcVars, retryVars, genVars, statusVars, fnVars, raceVars,
                 publishVars, histVars>>

\* POST /platforms/disconnect/{campaign_id}: deletes the row first() returns
\* and, for Telegram, clears the campaign's managed bot.
disconnect(c, platform) ==
  /\ IF ~exists[c]
     THEN ConnReject("disconnect", c, platform, 404)
     ELSE \E connection \in query_first(rows_of(c, platform)) :
       IF connection = NoRow
       THEN ConnReject("disconnect", c, platform, 404)
       ELSE /\ connections' = connections \ {connection}
            /\ managed_telegram_bot_id' =
                 IF platform = "telegram"
                 THEN [managed_telegram_bot_id EXCEPT ![c] = 0]
                 ELSE managed_telegram_bot_id
            /\ connOp' = ConnOp("disconnect", c, platform, 200)
            /\ UNCHANGED <<next_connection_id, bots>>
  /\ UNCHANGED <<schedVars, calcVars, retryVars, genVars, statusVars, fnVars, raceVars,
                 publishVars, histVars>>

\* Two campaigns without connections, the first pending or running, and a
\* pool of two bots: bot 2 is active, shared and takes one campaign, the
\* limit and the flags of bot 1 vary.
ConnInit ==
  /\ now = 0
  /\ workspace = [is_active |-> TRUE, is_deleted |-> FALSE]
  /\ is_active = [c \in Campaigns |-> TRUE]
  /\ is_paused = [c \in Campaigns |-> FALSE]
  /\ exists = [c \in Campaigns |-> TRUE]
  /\ status \in [Campaigns -> {"PENDING", "RUNNING"}]
  /\ status[2] = "PENDING"
  /\ next_run_at = [c \in Campaigns |-> 0]
  /\ has_settings = [c \in Campaigns |-> TRUE]
  /\ emergency_stop_enabled = [c \in Campaigns |-> FALSE]
  /\ max_daily_posts = [c \in Campaigns |-> DefaultMaxDailyPosts]
  /\ connected = [c \in Campaigns |-> {}]
  /\ changes = 0
  /\ posts = [c \in Campaigns |-> [d \in Days |-> 0]]
  /\ tickPc = "idle"
  /\ batch = <<>>
  /\ processed = {}
  /\ queue = [c \in Campaigns |-> 0]
  /\ lastCycle = NoCycle
  /\ cycles = 0
  /\ CalcIdle
  /\ RetryIdle
  /\ HistIdle
  /\ PublishIdle
  /\ RaceIdle
  /\ OthersIdle
  /\ connections = {}
  /\ next_connection_id = 1
  /\ managed_telegram_bot_id = [c \in Campaigns |-> 0]
  /\ bots \in [Bots -> [max_campaigns : BotLimits, is_active : BOOLEAN,
                        is_exclusive : BOOLEAN]]
  /\ bots[2] = [max_campaigns |-> 1, is_active |-> TRUE, is_exclusive |-> FALSE]
  /\ connOp = NoConnOp

ConnNext ==
  \/ \E c \in Campaigns, platform \in PlatformType :
       initiate_platform_connection(c, platform)
  \/ \E id \in 1..MaxConnections, token_fetched \in BOOLEAN :
       verify_twitter_callback(id, token_fetched)
  \/ \E id \in 1..MaxConnections, bot_id \in BotIds :
       verify_telegram_callback(id, bot_id)
  \/ \E c \in Campaigns, platform \in PlatformType : disconnect(c, platform)

SpecConnect == ConnInit /\ [][ConnNext]_vars

\* ------------------------------------------- the next-run computation alone
CalcInit ==
  /\ SchedIdle
  /\ RetryIdle
  /\ HistIdle
  /\ ConnIdle
  /\ PublishIdle
  /\ RaceIdle
  /\ OthersIdle
  /\ calcOut = NoCalc
  /\ \E t \in CalcTimes, ppd \in CalcMaxDailyPosts :
       \E n \in CalcPostsToday(ppd) :
         calcIn = [at |-> t, posts_per_day |-> ppd, posts_today |-> n]

\* random.randint(1, max_val) of the call: every value of the range.
CalcDraws(ppd) ==
  IF ppd > 0 /\ SilenceMaxHours(ppd) >= SilenceMinHours
  THEN SilenceMinHours..SilenceMaxHours(ppd)
  ELSE {0}

Calculate ==
  /\ ~calcOut.called
  /\ \E taken \in BOOLEAN, sv \in CalcDraws(calcIn.posts_per_day) :
       calcOut' = CalcRecord(calcIn.at, calcIn.posts_per_day, calcIn.posts_today, taken, sv)
  /\ UNCHANGED <<calcIn, schedVars, retryVars, genVars, statusVars, fnVars, raceVars, publishVars, connVars, histVars>>

CalcNext == Calculate

SpecCalc == CalcInit /\ [][CalcNext]_vars

\* ------------------------------------------------------ provider calls
\* What leaves the body of the provider's method when the client raises e.
\* OpenAIProvider catches every exception and raises LLMProviderError;
\* GeminiProvider logs and re-raises.
BodyRaises(p, e) == IF p = "openai" THEN "LLMProviderError" ELSE e

\* The retry= argument of the decorator.
retry_predicate(p, thrown) ==
  IF p = "openai" THEN thrown \in TransientErrors ELSE TRUE

stop_after_attempt(n) == n >= StopAfterAttempt

RECURSIVE Pow2(_)
Pow2(n) == IF n <= 0 THEN 1 ELSE 2 * Pow2(n - 1)

Min(a, b) == IF a <= b THEN a ELSE b
Max(a, b) == IF a >= b THEN a ELSE b

wait_exponential(n) == Max(Max(0, WaitMin), Min(WaitMultiplier * Pow2(n - 1), WaitMax))

RetryInit ==
  /\ SchedIdle
  /\ CalcIdle
  /\ RetryIdle
  /\ HistIdle
  /\ ConnIdle
  /\ PublishIdle
  /\ RaceIdle
  /\ OthersIdle

StartCall ==
  /\ callPc \in {"idle", "returned", "raised"}
  /\ calls < MaxCalls
  /\ calls' = calls + 1
  /\ provider' \in Providers
  /\ method' \in Methods
  /\ attempt_number' = 1
  /\ failures' = <<>>
  /\ raised' = "none"
  /\ waited' = 0
  /\ callPc' = "attempt"
  /\ UNCHANGED <<schedVars, calcVars, genVars, statusVars, fnVars, raceVars, publishVars, connVars, histVars>>

AttemptReturns ==
  /\ callPc = "attempt"
  /\ callPc' = "returned"
  /\ UNCHANGED <<provider, method, attempt_number, failures, raised, waited, calls>>
  /\ UNCHANGED <<schedVars, calcVars, genVars, statusVars, fnVars, raceVars, publishVars, connVars, histVars>>

AttemptRaises ==
  /\ callPc = "attempt"
  /\ \E e \in ClientErrors :
       LET thrown == BodyRaises(provider, e) IN
       /\ failures' = Append(failures, e)
       /\ IF ~retry_predicate(provider, thrown)
          THEN raised' = thrown /\ callPc' = "raised"
          ELSE IF stop_after_attempt(attempt_number)
          THEN raised' = "RetryError" /\ callPc' = "raised"
          ELSE raised' = raised /\ callPc' = "sleep"
  /\ UNCHANGED <<provider, method, attempt_number, waited, calls>>
  /\ UNCHANGED <<schedVars, calcVars, genVars, statusVars, fnVars, raceVars, publishVars, connVars, histVars>>

Sleep ==
  /\ callPc = "sleep"
  /\ waited' = waited + wait_exponential(attempt_number)
  /\ attempt_number' = attempt_number + 1
  /\ callPc' = "attempt"
  /\ UNCHANGED <<provider, method, failures, raised, calls>>
  /\ UNCHANGED <<schedVars, calcVars, genVars, statusVars, fnVars, raceVars, publishVars, connVars, histVars>>

RetryNext ==
  \/ StartCall
  \/ AttemptReturns
  \/ AttemptRaises
  \/ Sleep

SpecRetry == RetryInit /\ [][RetryNext]_vars

\* ------------------------------------------------ generate_social_post
\* What a collaborator answers: a fetch returns data, returns nothing or
\* raises; the provider returns text, returns None or raises; the
\* database fails at the commit of the post or of its tracking rows.
FetchOutcomes == {"data", "empty", "raises"}
LlmOutcomes == {"text", "None", "raises"}
DbFaults == {"none", "post", "tracking"}

\* A Python value as far as the pydantic validation tells values apart.
Val(kind, items) == [kind |-> kind, items |-> items]

ListOf(o, item) == IF o = "data" THEN Val("list", <<item>>) ELSE Val("list", <<>>)

\* The fetch coroutines, as asyncio.gather(return_exceptions=True) sees them.
\* fetch_trending_topics catches every Exception itself; the others catch
\* FetchError only.
fetch_trending_topics(o) == ListOf(o, "TrendingTopic")

fetch_crypto_news(o) == IF o = "raises" THEN Val("Exception", <<>>) ELSE ListOf(o, "dict")

fetch_market_data(o) ==
  IF o = "raises" THEN Val("Exception", <<>>)
  ELSE IF o = "data" THEN Val("MarketData", <<>>)
  ELSE Val("None", <<>>)

fetch_token_movements(o) == IF o = "raises" THEN Val("Exception", <<>>) ELSE ListOf(o, "dict")

IsListOf(v, item) == v.kind = "list" /\ \A i \in 1..Len(v.items) : v.items[i] = item

\* AggregatedData(...): pydantic validates market_data: Optional[MarketData],
\* trending_topics: List[TrendingTopic], relevant_news: List[Dict],
\* token_movements: List[Dict].
AggregatedData(market_data, trending_topics, relevant_news, token_movements) ==
  [ok |-> /\ market_data.kind \in {"None", "MarketData"}
          /\ IsListOf(trending_topics, "TrendingTopic")
          /\ IsListOf(relevant_news, "dict")
          /\ IsListOf(token_movements, "dict"),
   market_data |-> market_data,
   trending_topics |-> trending_topics,
   relevant_news |-> relevant_news,
   token_movements |-> token_movements]

OrEmptyList(v) == IF v.kind = "Exception" THEN Val("list", <<>>) ELSE v
OrNone(v) == IF v.kind = "Exception" THEN Val("None", <<>>) ELSE v

\* get_campaign_market_data_context: tasks are gathered in the order
\* trending, news, market data, movements and unpacked as the code unpacks them.
get_campaign_market_data_context(token_address, in) ==
  LET tasks == <<fetch_trending_topics(in.trending), fetch_crypto_news(in.news)>>
                 \o (IF token_address
                     THEN <<fetch_market_data(in.market), fetch_token_movements(in.movements)>>
                     ELSE <<>>)
      results == tasks
      market_data == IF token_address THEN results[1] ELSE Val("None", <<>>)
      trending_topics == IF token_address THEN results[2] ELSE results[1]
      news == IF token_address THEN results[3] ELSE results[2]
      movements == IF token_address THEN results[4] ELSE Val("list", <<>>)
  IN AggregatedData(IF token_address THEN OrNone(market_data) ELSE market_data,
                    OrEmptyList(trending_topics),
                    OrEmptyList(news),
                    IF token_address THEN OrEmptyList(movements) ELSE movements)

\* _initialize_generation_context
initialize_generation_context(in) ==
  LET market_context == get_campaign_market_data_context(in.project_token_address, in)
  IN IF ~market_context.ok
     THEN [ok |-> FALSE, err |-> "ValidationError", context |-> NoContext]
     ELSE [ok |-> TRUE, err |-> "none",
           context |-> [market_data |-> market_context.market_data.kind,
                        trending_topics |-> market_context.trending_topics.items,
                        recent_posts |-> <<>>]]

\* Mutant: a provider failure is swallowed and processing goes on.
after_llm_generate_swallowing(outcome) == [pc |-> "text", err |-> "none"]

\* Where _generate_and_process_post goes after awaiting llm_provider.generate.
after_llm_generate(outcome) ==
  IF outcome = "raises" THEN [pc |-> "raised", err |-> "LLMProviderError"]
  ELSE [pc |-> "text", err |-> "none"]

GenInitialize ==
  /\ genPc = "start"
  /\ LET r == initialize_generation_context(genIn) IN
       /\ context' = r.context
       /\ genPc' = IF r.ok THEN "context" ELSE "raised"
       /\ genRaised' = r.err
  /\ UNCHANGED <<genIn, rows>>
  /\ UNCHANGED <<schedVars, calcVars, retryVars, statusVars, fnVars, raceVars, publishVars, connVars, histVars>>

BuildAllComponents ==
  /\ genPc = "context"
  /\ genPc' = "components"
  /\ UNCHANGED <<genIn, context, rows, genRaised>>
  /\ UNCHANGED <<schedVars, calcVars, retryVars, statusVars, fnVars, raceVars, publishVars, connVars, histVars>>

LlmGenerate ==
  /\ genPc = "components"
  /\ LET r == after_llm_generate(genIn.llm) IN
       /\ genPc' = r.pc
       /\ genRaised' = r.err
  /\ UNCHANGED <<genIn, context, rows>>
  /\ UNCHANGED <<schedVars, calcVars, retryVars, statusVars, fnVars, raceVars, publishVars, connVars, histVars>>

\* Formatting, humanizing and add_social_post.  A content of None makes a
\* str method or the NOT NULL content column fail; add_social_post rolls
\* back and raises when its commit fails.
AddSocialPost ==
  /\ genPc = "text"
  /\ IF genIn.llm = "None"
     THEN /\ genPc' = "raised"
          /\ genRaised' \in {"AttributeError", "Exception"}
          /\ rows' = rows
     ELSE IF genIn.db = "post"
     THEN /\ genPc' = "raised"
          /\ genRaised' = "Exception"
          /\ rows' = rows
     ELSE /\ genPc' = "post_stored"
          /\ genRaised' = genRaised
          /\ rows' = [rows EXCEPT !.SocialPost = @ + 1]
  /\ UNCHANGED <<genIn, context>>
  /\ UNCHANGED <<schedVars, calcVars, retryVars, statusVars, fnVars, raceVars, publishVars, connVars, histVars>>

\* PostAnalytics and PostPerformance are added and committed together.
SetupTracking ==
  /\ genPc = "post_stored"
  /\ IF genIn.db = "tracking"
     THEN /\ genPc' = "raised"
          /\ genRaised' = "SQLAlchemyError"
          /\ rows' = rows
     ELSE /\ genPc' = "done"
          /\ genRaised' = genRaised
          /\ rows' = [rows EXCEPT !.PostAnalytics = @ + 1, !.PostPerformance = @ + 1]
  /\ UNCHANGED <<genIn, context>>
  /\ UNCHANGED <<schedVars, calcVars, retryVars, statusVars, fnVars, raceVars, publishVars, connVars, histVars>>

GenInit ==
  /\ SchedIdle
  /\ CalcIdle
  /\ RetryIdle
  /\ HistIdle
  /\ ConnIdle
  /\ PublishIdle
  /\ RaceIdle
  /\ StatusIdle
  /\ FnIdle
  /\ genPc = "start"
  /\ genIn \in [project_token_address : BOOLEAN, trending : FetchOutcomes,
                news : FetchOutcomes, market : FetchOutcomes, movements : FetchOutcomes,
                llm : LlmOutcomes, db : DbFaults]
  /\ context = NoContext
  /\ rows = NoRows
  /\ genRaised = "none"

GenNext ==
  \/ GenInitialize
  \/ BuildAllComponents
  \/ LlmGenerate
  \/ AddSocialPost
  \/ SetupTracking

SpecGen == GenInit /\ [][GenNext]_vars

\* ------------------------------------------------- platform delivery
\* The members of the PostStatus enum and their values.
PostStatusMembers ==
  [DRAFT |-> "draft", SCHEDULED |-> "scheduled", PUBLISHED |-> "published",
   FAILED |-> "failed", DELETED |-> "deleted", ARCHIVED |-> "archived"]

\* PostStatus.NAME raises AttributeError when the enum has no such member.
HasMember(member) == member \in DOMAIN PostStatusMembers

MAX_PUBLISH_RETRIES == 3
MaxChats == 3
RetryCounts == 0..(MAX_PUBLISH_RETRIES - 1)

\* What telegram_client.send_message does for one chat: a response with a
\* message_id, a response without one, or an exception.
SendOutcomes == {"sent", "no_message_id", "raises"}

TelegramResult(st, retry_count, reason, message_ids, attempted) ==
  [fn |-> "telegram", status |-> st, retry_count |-> retry_count,
   failure_reason |-> reason, telegram_message_ids |-> message_ids,
   attempted |-> attempted]

\* status = PostStatus.PUBLISHED if success_count == total_chats
\*          else PostStatus.PARTIALLY_PUBLISHED
partial_status(success_count, total_chats) ==
  IF success_count = total_chats THEN PostStatusMembers.PUBLISHED
  ELSE IF HasMember("PARTIALLY_PUBLISHED") THEN "partially_published"
  ELSE "AttributeError"

\* _publish_to_telegram(db, scheduled_post, campaign, retry_count).
\*   has_bot_id : campaign.managed_telegram_bot_id is set
\*   bot_config : the ManagedTelegramBot row exists and has a token
\*   outcomes   : what send_message does for each of campaign.telegram_chat_ids
publish_to_telegram(retry_count, has_bot_id, bot_config, outcomes) ==
  IF ~has_bot_id
  THEN TelegramResult("failed", retry_count + 1, "No managed_telegram_bot_id", {}, 0)
  ELSE IF ~bot_config
  THEN TelegramResult("failed", retry_count + 1, "Bot config/token not found", {}, 0)
  ELSE IF outcomes = <<>>
  THEN TelegramResult("failed", retry_count + 1, "No telegram_chat_ids", {}, 0)
  ELSE
    LET total_chats == Len(outcomes)
        sent_ids == {i \in 1..total_chats : outcomes[i] = "sent"}
        success_count == Cardinality(sent_ids)
        st == partial_status(success_count, total_chats)
    IN IF success_count > 0
       THEN IF st = "AttributeError"
            THEN \* caught by `except Exception`, after sent_ids went into the metadata
                 TelegramResult("failed", retry_count + 1, "Unexpected error", sent_ids,
                                total_chats)
            ELSE TelegramResult(st, retry_count, "none", sent_ids, total_chats)
       ELSE TelegramResult("failed", retry_count + 1, "No messages successfully sent",
                           {}, total_chats)

\* What one publish_post call leaves behind for its post.
DeliveryResult(st, retry_count, reason, attempted, success) ==
  [status |-> st, retry_count |-> retry_count, failure_reason |-> reason,
   attempted |-> attempted, delivered |-> success]

\* What a Twitter send does when the post has a media_path: "none" stands for
\* a post without one.
MediaOutcomes == SendOutcomes \cup {"none"}

\* _publish_to_twitter(db, scheduled_post, campaign, retry_count).
\*   connection : a connected PlatformConnection with an access token exists
\*   media      : what send_media_message does ("none": no media_path)
\*   outcome    : what send_message does
publish_to_twitter(retry_count, connection, media, outcome) ==
  IF ~connection
  THEN DeliveryResult("failed", retry_count + 1, "No active/complete Twitter connection",
                      0, FALSE)
  ELSE
    LET fallback == media = "raises"
        text_sent == media = "none" \/ fallback
        attempted == (IF media # "none" THEN 1 ELSE 0) + (IF text_sent THEN 1 ELSE 0)
        response == IF text_sent THEN outcome ELSE media
    IN IF response = "sent"
       THEN DeliveryResult(PostStatusMembers.PUBLISHED, retry_count, "none", attempted, TRUE)
       ELSE IF response = "no_message_id"
       THEN DeliveryResult(PostStatusMembers.FAILED, retry_count + 1, "Failed to send tweet",
                           attempted, FALSE)
       ELSE DeliveryResult(PostStatusMembers.FAILED, retry_count + 1, "Unexpected error",
                           attempted, FALSE)

\* The columns of CampaignSettings.
CampaignSettingsColumns ==
  {"id", "campaign_id", "content_filtering", "meme_generation", "sentiment_analysis",
   "content_approval_required", "max_daily_posts", "min_time_between_posts",
   "language_style", "emoji_usage", "hashtag_usage", "max_hashtags_per_post",
   "platform_settings", "cross_posting", "platform_rotation", "auto_reply",
   "reply_to_mentions", "engage_with_comments", "max_daily_replies", "engagement_hours",
   "community_guidelines", "blocked_users", "blocked_keywords", "auto_moderation",
   "spam_detection", "tracking_enabled", "analytics_granularity", "performance_alerts",
   "alert_thresholds", "ai_creativity_level", "ai_response_speed", "ai_memory_retention",
   "ai_learning_enabled", "risk_level", "compliance_check_level",
   "content_backup_enabled", "emergency_stop_enabled", "rate_limiting_enabled",
   "rate_limits", "created_at", "updated_at", "last_optimized_at"}

\* campaign_settings.<column> raises AttributeError when the model has no such
\* column.
HasColumn(column) == column \in CampaignSettingsColumns

\* Mutant: no status test, every post goes on to delivery.
publish_guard_open(st) == "proceed"

\* The status tests that open publish_post: return for a published post, then
\* the test against PostStatus.CANCELLED, then return for any status other
\* than SCHEDULED and DRAFT.
publish_guard(st) ==
  IF st = PostStatusMembers.PUBLISHED THEN "returned"
  ELSE IF ~HasMember("CANCELLED") THEN "AttributeError"
  ELSE IF st = "cancelled" THEN "returned"
  ELSE IF st \notin {PostStatusMembers.SCHEDULED, PostStatusMembers.DRAFT} THEN "returned"
  ELSE "proceed"

\* ---------------------------------------------------------- post status
MaxStatusOps == 3
MaxRaceTime == 2

PostStatus == {"draft", "scheduled", "published", "failed", "deleted", "archived"}
Posts == {1, 2}
\* Ids a caller may pass: the posts and one id without a row.
PostIds == Posts \cup {3}

StatusOp(op, post_id, st, result) ==
  [op |-> op, post_id |-> post_id, status |-> st, result |-> result]

\* SocialPostHistoryService.update_post_status(post_id, status)
update_post_status(post_id, st) ==
  /\ statusOps < MaxStatusOps
  /\ statusOps' = statusOps + 1
  /\ IF post_id \notin DOMAIN post_status
     THEN /\ statusOp' = StatusOp("update_post_status", post_id, st, "Exception")
          /\ post_status' = post_status
     ELSE \E commit \in {"ok", "SQLAlchemyError"} :
            IF commit = "ok"
            THEN /\ post_status' = [post_status EXCEPT ![post_id] = st]
                 /\ statusOp' = StatusOp("update_post_status", post_id, st, "returned")
            ELSE /\ post_status' = post_status
                 /\ statusOp' = StatusOp("update_post_status", post_id, st, "Exception")
  /\ UNCHANGED <<schedVars, calcVars, retryVars, genVars, fnVars, raceVars, publishVars, connVars, histVars>>

\* SocialPost.campaign_id: post p belongs to campaign p.
campaign_id(post_id) == post_id

NoMetadata == [retry_count |-> 0, failure_reason |-> "none"]

\* publish_post leaves without writing: a return, or an exception.
PublishExit(post_id, result) ==
  /\ statusOp' = StatusOp("publish_post", post_id, "none", result)
  /\ UNCHANGED <<post_status, publishVars, connVars, histVars>>

\* publish_post writes status and post_metadata, commits and returns.
PublishWrite(post_id, r) ==
  /\ statusOp' = StatusOp("publish_post", post_id, r.status, "returned")
  /\ post_status' = [post_status EXCEPT ![post_id] = r.status]
  /\ post_metadata' = [post_metadata EXCEPT ![post_id] =
                         [retry_count |-> r.retry_count,
                          failure_reason |-> r.failure_reason]]
  /\ sends' = [sends EXCEPT ![post_id] = @ + r.attempted]
  /\ delivered' = [delivered EXCEPT ![post_id] = @ + (IF r.delivered THEN 1 ELSE 0)]
  /\ UNCHANGED post_platform

\* PlatformMessagingService.publish_post(db, scheduled_post_id).  The second
\* status test names PostStatus.CANCELLED, which the enum does not define:
\* for a post that is not yet published, evaluating it raises AttributeError.
publish_post(post_id) ==
  /\ statusOps < MaxStatusOps
  /\ statusOps' = statusOps + 1
  /\ IF post_id \notin DOMAIN post_status
     THEN PublishExit(post_id, "returned")
     ELSE IF publish_guard(post_status[post_id]) # "proceed"
     THEN PublishExit(post_id, publish_guard(post_status[post_id]))
     ELSE
       LET c == campaign_id(post_id)
           retry_count == post_metadata[post_id].retry_count
       IN IF ~exists[c]
          THEN PublishWrite(post_id, DeliveryResult(PostStatusMembers.FAILED, retry_count,
                                                    "Campaign not found for post", 0, FALSE))
          ELSE IF has_settings[c] /\ ~HasColumn("emergency_stop_activated")
          THEN PublishExit(post_id, "AttributeError")
          ELSE IF has_settings[c] /\ emergency_stop_enabled[c]
          THEN PublishWrite(post_id, DeliveryResult("cancelled", retry_count,
                                                    "Emergency stop activated for campaign",
                                                    0, FALSE))
          ELSE IF retry_count >= MAX_PUBLISH_RETRIES
          THEN PublishWrite(post_id, DeliveryResult("cancelled", retry_count,
                                                    "Max retries reached", 0, FALSE))
          ELSE IF post_platform[post_id] \notin PlatformType
          THEN PublishWrite(post_id, DeliveryResult(PostStatusMembers.FAILED, retry_count + 1,
                                                    "Invalid platform type", 0, FALSE))
          ELSE IF post_platform[post_id] = "twitter"
          THEN \E connection \in BOOLEAN, media \in MediaOutcomes, outcome \in SendOutcomes :
                 PublishWrite(post_id,
                              publish_to_twitter(retry_count, connection, media, outcome))
          ELSE IF post_platform[post_id] = "telegram"
          THEN \E has_bot_id \in BOOLEAN, bot_config \in BOOLEAN, n \in 0..MaxChats :
                 \E outcomes \in [1..n -> SendOutcomes] :
                   LET r == publish_to_telegram(retry_count, has_bot_id, bot_config, outcomes)
                   IN PublishWrite(post_id,
                                   DeliveryResult(r.status, r.retry_count, r.failure_reason,
                                                  r.attempted,
                                                  r.telegram_message_ids # {}))
          ELSE PublishWrite(post_id, DeliveryResult(PostStatusMembers.FAILED, retry_count + 1,
                                                    "Unsupported platform", 0, FALSE))
  /\ UNCHANGED <<schedVars, calcVars, retryVars, genVars, fnVars, raceVars, connVars, histVars>>

\* add_social_post creates every post as a draft.
StatusInit ==
  /\ SchedIdle
  /\ CalcIdle
  /\ RetryIdle
  /\ HistIdle
  /\ ConnIdle
  /\ PublishIdle
  /\ RaceIdle
  /\ GenIdle
  /\ FnIdle
  /\ post_status = [p \in Posts |-> "draft"]
  /\ statusOp = NoStatusOp
  /\ statusOps = 0

StatusNext ==
  \/ \E p \in PostIds, st \in PostStatus : update_post_status(p, st)
  \/ \E p \in PostIds : publish_post(p)

SpecStatus == StatusInit /\ [][StatusNext]_vars

\* ----------------------------------------------------------- publishing
\* What SocialPost.platform_type may hold: the PlatformType values and a
\* string that is none of them.
StoredPlatforms == PlatformType \cup {"myspace"}

\* Posts as add_social_post creates them, drafts with no retry recorded, on
\* campaigns whose row, settings row and emergency stop vary (campaign 1).
PublishInit ==
  /\ SchedRestIdle
  /\ exists \in [Campaigns -> BOOLEAN]
  /\ has_settings \in [Campaigns -> BOOLEAN]
  /\ emergency_stop_enabled \in [Campaigns -> BOOLEAN]
  /\ \A c \in Campaigns \ {1} :
       exists[c] /\ has_settings[c] /\ ~emergency_stop_enabled[c]
  /\ CalcIdle
  /\ RetryIdle
  /\ HistIdle
  /\ ConnIdle
  /\ RaceIdle
  /\ GenIdle
  /\ FnIdle
  /\ post_status = [p \in Posts |-> PostStatusMembers.DRAFT]
  /\ statusOp = NoStatusOp
  /\ statusOps = 0
  /\ post_platform \in [Posts -> StoredPlatforms]
  /\ post_platform[2] = "telegram"
  /\ post_metadata = [p \in Posts |-> NoMetadata]
  /\ sends = [p \in Posts |-> 0]
  /\ delivered = [p \in Posts |-> 0]

PublishNext ==
  \/ \E p \in PostIds, st \in PostStatus : update_post_status(p, st)
  \/ \E p \in PostIds : publish_post(p)

SpecPublish == PublishInit /\ [][PublishNext]_vars

\* ------------------------------------------------------- campaign phase
CampaignTimeline == {"1 Week", "2 Weeks", "1 Month", "2 Months", "3 Months",
                     "6 Months", "1 Year"}
CampaignPhase == {"early", "mid", "late"}

\* Values of duration.days tried: around every breakpoint, before the start
\* date and long after the end.
PhaseDays == {-400, -1, 0, 1, 2, 3, 4, 5, 9, 10, 11, 19, 20, 21, 29, 30, 31, 39, 40, 41,
              59, 60, 61, 119, 120, 121, 239, 240, 241, 400}

\* Mutant: the one-week tests use <= instead of <.
determine_campaign_phase_inclusive(campaign_timeline, days) ==
  IF campaign_timeline = "1 Week"
  THEN IF days <= 2 THEN "early" ELSE IF days <= 5 THEN "mid" ELSE "late"
  ELSE IF days < 120 THEN "early" ELSE IF days < 240 THEN "mid" ELSE "late"

\* _determine_campaign_phase, on campaign_timeline and duration.days
determine_campaign_phase(campaign_timeline, days) ==
  IF campaign_timeline = "1 Week"
  THEN IF days < 2 THEN "early" ELSE IF days < 5 THEN "mid" ELSE "late"
  ELSE IF campaign_timeline = "2 Weeks"
  THEN IF days < 4 THEN "early" ELSE IF days < 10 THEN "mid" ELSE "late"
  ELSE IF campaign_timeline = "1 Month"
  THEN IF days < 10 THEN "early" ELSE IF days < 20 THEN "mid" ELSE "late"
  ELSE IF campaign_timeline = "2 Months"
  THEN IF days < 20 THEN "early" ELSE IF days < 40 THEN "mid" ELSE "late"
  ELSE IF campaign_timeline = "3 Months"
  THEN IF days < 30 THEN "early" ELSE IF days < 60 THEN "mid" ELSE "late"
  ELSE IF campaign_timeline = "6 Months"
  THEN IF days < 60 THEN "early" ELSE IF days < 120 THEN "mid" ELSE "late"
  ELSE IF days < 120 THEN "early" ELSE IF days < 240 THEN "mid" ELSE "late"

\* Two calls for the same campaign, the second no earlier than the first.
PhaseInit ==
  /\ SchedIdle
  /\ CalcIdle
  /\ RetryIdle
  /\ HistIdle
  /\ ConnIdle
  /\ PublishIdle
  /\ RaceIdle
  /\ GenIdle
  /\ StatusIdle
  /\ fnOut = NoFn
  /\ \E t \in CampaignTimeline, d1, d2 \in PhaseDays :
       /\ d1 <= d2
       /\ fnIn = [fn |-> "phase", campaign_timeline |-> t, days1 |-> d1, days2 |-> d2]

DeterminePhase ==
  /\ fnIn.fn = "phase"
  /\ fnOut = NoFn
  /\ fnOut' = [fn |-> "phase",
               phase1 |-> determine_campaign_phase(fnIn.campaign_timeline, fnIn.days1),
               phase2 |-> determine_campaign_phase(fnIn.campaign_timeline, fnIn.days2)]
  /\ UNCHANGED <<fnIn, schedVars, calcVars, retryVars, genVars, statusVars, raceVars, publishVars, connVars, histVars>>

PhaseNext == DeterminePhase

SpecPhase == PhaseInit /\ [][PhaseNext]_vars

\* ----------------------------------------------------------- post stage
\* The stages a stored post can carry; the three of PostStage that no
\* quota names are represented by "news".
PostStage == {"intro", "hype", "meme", "deep_dive", "cta", "news"}

\* limit of get_recent_posts
RecentLimit == 5

\* The recent posts handed to _determine_post_stage: the post_stage of at
\* most RecentLimit posts, newest first.
RecentHistories == UNION {[1..n -> PostStage] : n \in 0..RecentLimit}

\* stage_counts.get(stage, 0) after the counting loop
RECURSIVE stage_count(_, _)
stage_count(recent_posts, stage) ==
  IF recent_posts = <<>> THEN 0
  ELSE stage_count(Tail(recent_posts), stage)
       + (IF Head(recent_posts) = stage THEN 1 ELSE 0)

\* Mutant: the late phase tests DEEP_DIVE before CTA.
determine_post_stage_late_swapped(campaign_phase, recent_posts) ==
  IF campaign_phase = "early"
  THEN IF stage_count(recent_posts, "intro") < 2 THEN "intro"
       ELSE IF stage_count(recent_posts, "hype") < 3 THEN "hype"
       ELSE "meme"
  ELSE IF campaign_phase = "mid"
  THEN IF stage_count(recent_posts, "deep_dive") < 2 THEN "deep_dive"
       ELSE IF stage_count(recent_posts, "hype") < 3 THEN "hype"
       ELSE "meme"
  ELSE IF stage_count(recent_posts, "deep_dive") < 2 THEN "deep_dive"
       ELSE IF stage_count(recent_posts, "cta") < 2 THEN "cta"
       ELSE "hype"

\* _determine_post_stage, on the campaign phase and the recent posts
determine_post_stage(campaign_phase, recent_posts) ==
  IF campaign_phase = "early"
  THEN IF stage_count(recent_posts, "intro") < 2 THEN "intro"
       ELSE IF stage_count(recent_posts, "hype") < 3 THEN "hype"
       ELSE "meme"
  ELSE IF campaign_phase = "mid"
  THEN IF stage_count(recent_posts, "deep_dive") < 2 THEN "deep_dive"
       ELSE IF stage_count(recent_posts, "hype") < 3 THEN "hype"
       ELSE "meme"
  ELSE IF stage_count(recent_posts, "cta") < 2 THEN "cta"
       ELSE IF stage_count(recent_posts, "deep_dive") < 2 THEN "deep_dive"
       ELSE "hype"

StageInit ==
  /\ SchedIdle
  /\ CalcIdle
  /\ RetryIdle
  /\ HistIdle
  /\ ConnIdle
  /\ PublishIdle
  /\ RaceIdle
  /\ GenIdle
  /\ StatusIdle
  /\ fnOut = NoFn
  /\ \E p \in CampaignPhase, h \in RecentHistories :
       fnIn = [fn |-> "stage", campaign_phase |-> p, recent_posts |-> h]

DetermineStage ==
  /\ fnIn.fn = "stage"
  /\ fnOut = NoFn
  /\ fnOut' = [fn |-> "stage",
               stage |-> determine_post_stage(fnIn.campaign_phase, fnIn.recent_posts)]
  /\ UNCHANGED <<fnIn, schedVars, calcVars, retryVars, genVars, statusVars, raceVars, publishVars, connVars, histVars>>

StageNext == DetermineStage

SpecStage == StageInit /\ [][StageNext]_vars

\* -------------------------------------------------------- stage history
\* Posts of one campaign stored in one behaviour.
MaxPosts == 7

\* get_recent_posts(campaign.id): the post_stage of the newest limit posts,
\* newest first (order_by(desc(created_at)).limit(5))
get_recent_posts(stored) ==
  [i \in 1..Min(Len(stored), RecentLimit) |-> stored[Len(stored) + 1 - i]]

\* generate_social_post up to the provider call: the context reads the
\* recent posts and _build_all_components resolves the stage from them.
build_all_components(g) ==
  /\ generating[g].pc = "idle"
  /\ Len(social_posts) < MaxPosts
  /\ LET recent_posts == get_recent_posts(social_posts)
     IN generating' = [generating EXCEPT ![g] =
                         [pc |-> "generate",
                          stage |-> determine_post_stage(current_phase, recent_posts),
                          read_at |-> Len(social_posts)]]
  /\ UNCHANGED <<social_posts, read_at, current_phase>>
  /\ UNCHANGED <<schedVars, calcVars, retryVars, genVars, statusVars, fnVars, raceVars,
                 publishVars, connVars>>

\* await llm_provider.generate(prompt) raises: nothing is stored.
provider_raises(g) ==
  /\ generating[g].pc = "generate"
  /\ generating' = [generating EXCEPT ![g] = NoGeneration]
  /\ UNCHANGED <<social_posts, read_at, current_phase>>
  /\ UNCHANGED <<schedVars, calcVars, retryVars, genVars, statusVars, fnVars, raceVars,
                 publishVars, connVars>>

\* The provider returned: _store_post_with_analytics adds the post with
\* post_stage = metadata["stage"] and created_at = now.
store_post_with_analytics(g) ==
  /\ generating[g].pc = "generate"
  /\ Len(social_posts) < MaxPosts
  /\ social_posts' = Append(social_posts, generating[g].stage)
  /\ read_at' = Append(read_at, generating[g].read_at)
  /\ generating' = [generating EXCEPT ![g] = NoGeneration]
  /\ UNCHANGED current_phase
  /\ UNCHANGED <<schedVars, calcVars, retryVars, genVars, statusVars, fnVars, raceVars,
                 publishVars, connVars>>

\* A campaign without posts, in any one phase, and no generation running.
HistInit ==
  /\ SchedIdle
  /\ CalcIdle
  /\ RetryIdle
  /\ ConnIdle
  /\ PublishIdle
  /\ RaceIdle
  /\ OthersIdle
  /\ social_posts = <<>>
  /\ read_at = <<>>
  /\ generating = [g \in Generators |-> NoGeneration]
  /\ current_phase \in CampaignPhase

HistNext ==
  \E g \in Generators :
    \/ build_all_components(g)
    \/ provider_raises(g)
    \/ store_post_with_analytics(g)

SpecHistory == HistInit /\ [][HistNext]_vars

\* ------------------------------------------------ human-like patterns
\* The catalogue of apply_human_like_patterns, in the order of the list.
Transformations == <<"add_typos", "add_emoji_imperfections", "add_casual_punctuation",
                     "vary_capitalization", "simulate_device_typing", "add_keyboard_typos">>
DeviceType == {"mobile", "desktop"}

\* intensity and random.random(), in hundredths; random.random() is in [0, 1).
Intensities == {0, 50, 100}
RandomDraws == {0, 50, 99}

\* Orders random.shuffle may leave the catalogue in: as listed and reversed.
ShuffledOrders ==
  {Transformations,
   [i \in 1..Len(Transformations) |-> Transformations[Len(Transformations) + 1 - i]]}

\* A text is the sequence of what was done to it; a transformation that
\* runs leaves its mark.
Texts == {<<>>, <<"gm">>}

\* Mutant: a transformation runs when random.random() <= intensity.
RECURSIVE apply_human_like_patterns_inclusive(_, _, _, _, _)
apply_human_like_patterns_inclusive(text, intensity, device, order, draw) ==
  IF order = <<>> THEN text
  ELSE LET transform == Head(order)
           t1 == IF draw[transform] <= intensity THEN Append(text, transform) ELSE text
       IN apply_human_like_patterns_inclusive(t1, intensity, device, Tail(order), draw)

\* apply_human_like_patterns(text, intensity, device): the loop over the
\* shuffled catalogue; draw[transform] is the random.random() of its turn.
RECURSIVE apply_human_like_patterns(_, _, _, _, _)
apply_human_like_patterns(text, intensity, device, order, draw) ==
  IF order = <<>> THEN text
  ELSE LET transform == Head(order)
           t1 == IF draw[transform] < intensity THEN Append(text, transform) ELSE text
       IN apply_human_like_patterns(t1, intensity, device, Tail(order), draw)

HumanizeInit ==
  /\ SchedIdle
  /\ CalcIdle
  /\ RetryIdle
  /\ HistIdle
  /\ ConnIdle
  /\ PublishIdle
  /\ RaceIdle
  /\ GenIdle
  /\ StatusIdle
  /\ fnOut = NoFn
  /\ \E t \in Texts, i \in Intensities, d \in DeviceType, o \in ShuffledOrders,
        r \in [SeqToSet(Transformations) -> RandomDraws] :
       fnIn = [fn |-> "humanize", text |-> t, intensity |-> i, device |-> d,
               order |-> o, draw |-> r]

ApplyHumanLikePatterns ==
  /\ fnIn.fn = "humanize"
  /\ fnOut = NoFn
  /\ fnOut' = [fn |-> "humanize",
               text |-> apply_human_like_patterns(fnIn.text, fnIn.intensity, fnIn.device,
                                                  fnIn.order, fnIn.draw)]
  /\ UNCHANGED <<fnIn, schedVars, calcVars, retryVars, genVars, statusVars, raceVars, publishVars, connVars, histVars>>

HumanizeNext == ApplyHumanLikePatterns

SpecHumanize == HumanizeInit /\ [][HumanizeNext]_vars

\* ------------------------------------------------------ performance tier
\* ENGAGEMENT_THRESHOLDS, in thousandths, in the order of the dict.
PerformanceLevels == <<"high", "medium", "low">>

ENGAGEMENT_THRESHOLDS ==
  [high   |-> [engagement_rate |-> 50, virality_score |-> 800, sentiment_score |-> 700],
   medium |-> [engagement_rate |-> 20, virality_score |-> 500, sentiment_score |-> 500],
   low    |-> [engagement_rate |-> 10, virality_score |-> 300, sentiment_score |-> 300]]

\* Metric values tried, in thousandths: at, just below and above every threshold.
EngagementRates == {0, 9, 10, 19, 20, 49, 50, 60}
ViralityScores == {0, 299, 300, 499, 500, 799, 800, 1000}
SentimentScores == {-1000, 299, 300, 499, 500, 699, 700, 1000}

\* Mutant: a tier is given as soon as one of its thresholds is met.
RECURSIVE first_level_met_any(_, _, _, _)
first_level_met_any(levels, engagement_rate, virality_score, sentiment_score) ==
  IF levels = <<>> THEN "low"
  ELSE LET thresholds == ENGAGEMENT_THRESHOLDS[Head(levels)] IN
       IF \/ engagement_rate >= thresholds.engagement_rate
          \/ virality_score >= thresholds.virality_score
          \/ sentiment_score >= thresholds.sentiment_score
       THEN Head(levels)
       ELSE first_level_met_any(Tail(levels), engagement_rate, virality_score,
                                sentiment_score)

\* The loop of _determine_performance_level over ENGAGEMENT_THRESHOLDS.items()
RECURSIVE first_level_met(_, _, _, _)
first_level_met(levels, engagement_rate, virality_score, sentiment_score) ==
  IF levels = <<>> THEN "low"
  ELSE LET thresholds == ENGAGEMENT_THRESHOLDS[Head(levels)] IN
       IF /\ engagement_rate >= thresholds.engagement_rate
          /\ virality_score >= thresholds.virality_score
          /\ sentiment_score >= thresholds.sentiment_score
       THEN Head(levels)
       ELSE first_level_met(Tail(levels), engagement_rate, virality_score, sentiment_score)

determine_performance_level(engagement_rate, virality_score, sentiment_score) ==
  first_level_met(PerformanceLevels, engagement_rate, virality_score, sentiment_score)

TierInit ==
  /\ SchedIdle
  /\ CalcIdle
  /\ RetryIdle
  /\ HistIdle
  /\ ConnIdle
  /\ PublishIdle
  /\ RaceIdle
  /\ GenIdle
  /\ StatusIdle
  /\ fnOut = NoFn
  /\ \E e \in EngagementRates, v \in ViralityScores, t \in SentimentScores :
       fnIn = [fn |-> "tier", engagement_rate |-> e, virality_score |-> v,
               sentiment_score |-> t]

DeterminePerformanceLevel ==
  /\ fnIn.fn = "tier"
  /\ fnOut = NoFn
  /\ fnOut' = [fn |-> "tier",
               level |-> determine_performance_level(fnIn.engagement_rate,
                                                     fnIn.virality_score,
                                                     fnIn.sentiment_score)]
  /\ UNCHANGED <<fnIn, schedVars, calcVars, retryVars, genVars, statusVars, raceVars, publishVars, connVars, histVars>>

TierNext == DeterminePerformanceLevel

SpecTier == TierInit /\ [][TierNext]_vars

\* ------------------------------------------------------ prompt assembly
\* The components list of _combine_prompt_components, in insertion order.
\* A component's content is represented by the component's name.
ComponentNames ==
  <<"persona", "project_info", "platform", "trending", "strategy", "memory",
    "performance", "time_awareness">>

\* WEIGHTS_DISTRIBUTION, in tenths, for the eight components that are combined.
WEIGHTS_DISTRIBUTION ==
  [project_info |-> 30, platform |-> 28, memory |-> 25, strategy |-> 24,
   performance |-> 23, trending |-> 22, persona |-> 18, time_awareness |-> 15]

\* _build_performance_instructions gives weight 0.0 when there are no
\* successful patterns, WEIGHTS_DISTRIBUTION["performance"] otherwise.
PerformanceWeights == {0, WEIGHTS_DISTRIBUTION.performance}

\* Weights tried beside the configured ones, to make ties happen.
TiedWeights == {0, 23, 30}

BlankLine == "\n\n"

ComponentSet == {ComponentNames[i] : i \in 1..Len(ComponentNames)}

\* Mutant: a sort that is not stable, equal weights end up reversed.
RECURSIVE sort_insert_unstable(_, _, _)
sort_insert_unstable(sorted, comp, weight) ==
  IF sorted = <<>> THEN <<comp>>
  ELSE IF weight[Head(sorted)] > weight[comp]
       THEN <<Head(sorted)>> \o sort_insert_unstable(Tail(sorted), comp, weight)
       ELSE <<comp>> \o sorted

\* list.sort(key=weight, reverse=True) is stable: a component goes after
\* every component already placed whose weight is not smaller.
RECURSIVE sort_insert(_, _, _)
sort_insert(sorted, comp, weight) ==
  IF sorted = <<>> THEN <<comp>>
  ELSE IF weight[Head(sorted)] >= weight[comp]
       THEN <<Head(sorted)>> \o sort_insert(Tail(sorted), comp, weight)
       ELSE <<comp>> \o sorted

RECURSIVE sort_by_weight_reverse(_, _)
sort_by_weight_reverse(components, weight) ==
  IF components = <<>> THEN <<>>
  ELSE sort_insert(sort_by_weight_reverse(SubSeq(components, 1, Len(components) - 1),
                                          weight),
                   components[Len(components)], weight)

\* "\n\n".join(contents)
RECURSIVE join(_, _)
join(sep, contents) ==
  IF contents = <<>> THEN <<>>
  ELSE IF Len(contents) = 1 THEN contents
  ELSE <<Head(contents), sep>> \o join(sep, Tail(contents))

combine_prompt_components(weight) ==
  join(BlankLine, sort_by_weight_reverse(ComponentNames, weight))

PromptInit ==
  /\ SchedIdle
  /\ CalcIdle
  /\ RetryIdle
  /\ HistIdle
  /\ ConnIdle
  /\ PublishIdle
  /\ RaceIdle
  /\ GenIdle
  /\ StatusIdle
  /\ fnOut = NoFn
  /\ \/ \E p \in PerformanceWeights :
          fnIn = [fn |-> "combine",
                  weight |-> [WEIGHTS_DISTRIBUTION EXCEPT !.performance = p]]
     \/ \E w \in [ComponentSet -> TiedWeights] :
          fnIn = [fn |-> "combine", weight |-> w]

CombinePromptComponents ==
  /\ fnIn.fn = "combine"
  /\ fnOut = NoFn
  /\ fnOut' = [fn |-> "combine", prompt |-> combine_prompt_components(fnIn.weight)]
  /\ UNCHANGED <<fnIn, schedVars, calcVars, retryVars, genVars, statusVars, raceVars, publishVars, connVars, histVars>>

PromptNext == CombinePromptComponents

SpecPrompt == PromptInit /\ [][PromptNext]_vars

\* ------------------------------------------------------- random silence
\* The (unit, min_val, max_val) arguments the two callers of
\* add_random_silence pass: _store_post_with_analytics passes minutes 1..10,
\* _calculate_next_run_time passes hours 1..int(2 x 24 / max_daily_posts) for
\* the positive max_daily_posts it accepts.
ScheduledTimeSilence == [unit |-> "minutes", min_val |-> 1, max_val |-> 10]

NextRunSilence(posts_per_day) ==
  [unit |-> "hours", min_val |-> SilenceMinHours, max_val |-> SilenceMaxHours(posts_per_day)]

SilenceCalls ==
  {ScheduledTimeSilence} \cup {NextRunSilence(ppd) : ppd \in {p \in CalcMaxDailyPosts : p > 0}}

\* random.randint(min_val, max_val): every value of the range; a
\* placeholder when the range is empty and randint raises.
SilenceDraws(min_val, max_val) ==
  IF min_val <= max_val THEN min_val..max_val ELSE {0}

SilenceInit ==
  /\ SchedIdle
  /\ CalcIdle
  /\ RetryIdle
  /\ HistIdle
  /\ ConnIdle
  /\ PublishIdle
  /\ RaceIdle
  /\ GenIdle
  /\ StatusIdle
  /\ fnOut = NoFn
  /\ \E t \in CalcTimes, call \in SilenceCalls :
       fnIn = [fn |-> "silence", next_post_time |-> t, unit |-> call.unit,
               min_val |-> call.min_val, max_val |-> call.max_val]

AddRandomSilence ==
  /\ fnIn.fn = "silence"
  /\ fnOut = NoFn
  /\ \E taken \in BOOLEAN, silence_val \in SilenceDraws(fnIn.min_val, fnIn.max_val) :
       LET r == add_random_silence(fnIn.next_post_time, fnIn.unit, fnIn.min_val,
                                   fnIn.max_val, taken, silence_val)
       IN fnOut' = [fn |-> "silence", taken |-> taken, ok |-> r.ok, time |-> r.time]
  /\ UNCHANGED <<fnIn, schedVars, calcVars, retryVars, genVars, statusVars, raceVars, publishVars, connVars, histVars>>

SilenceNext == AddRandomSilence

SpecSilence == SilenceInit /\ [][SilenceNext]_vars

\* ------------------------------------------------- overlapping units
\* Nothing serialises the units: every firing of the cron schedule and
\* every request runs in its own task with its own database session, and
\* process_campaign awaits the provider between the read of next_run_at
\* and the commit that advances it.
CronPeriod == 1

\* The minute at which each firing of shilling_scheduler starts.
FiredAt == [u \in Ticks |-> IF u = "tick_a" THEN 0 ELSE CronPeriod]

restOfSched == <<workspace, exists, is_active, is_paused, status, has_settings,
                 emergency_stop_enabled, max_daily_posts, connected, tickPc, batch,
                 processed, queue, lastCycle, cycles, changes>>

\* fetch_eligible_campaigns and check_campaign_is_eligible of a tick: the
\* tick reads next_run_at and goes on to process_campaign, or finds no
\* campaign to process and ends.
UnitCheck(u) ==
  /\ u \in Ticks
  /\ unitPc[u] = "idle"
  /\ now >= FiredAt[u]
  /\ \/ \E c \in fetch_eligible_campaigns :
          /\ check_campaign_is_eligible(c)
          /\ unitPc' = [unitPc EXCEPT ![u] = "processing"]
          /\ unitSeen' = [unitSeen EXCEPT ![u] = [campaign |-> c, checked |-> TRUE,
                                                   next_run_at |-> next_run_at[c],
                                                   posted |-> FALSE]]
     \/ /\ \A c \in fetch_eligible_campaigns : ~check_campaign_is_eligible(c)
        /\ unitPc' = [unitPc EXCEPT ![u] = "done"]
        /\ UNCHANGED unitSeen
  /\ UNCHANGED <<now, next_run_at, posts, restOfSched>>
  /\ UNCHANGED <<calcVars, retryVars, genVars, statusVars, fnVars, publishVars, connVars, histVars>>

\* The generate-post route calls process_campaign with no eligibility check.
UnitRequest(u) ==
  /\ u \notin Ticks
  /\ unitPc[u] = "idle"
  /\ \E c \in Campaigns :
       /\ exists[c]
       /\ unitSeen' = [unitSeen EXCEPT ![u] = [campaign |-> c, checked |-> FALSE,
                                                next_run_at |-> next_run_at[c],
                                                posted |-> FALSE]]
  /\ unitPc' = [unitPc EXCEPT ![u] = "processing"]
  /\ UNCHANGED <<now, next_run_at, posts, restOfSched>>
  /\ UNCHANGED <<calcVars, retryVars, genVars, statusVars, fnVars, publishVars, connVars, histVars>>

\* generate_social_post of process_campaign returns (the SocialPost row is
\* committed) or raises for every platform (the unit ends).
UnitGenerate(u) ==
  /\ unitPc[u] = "processing"
  /\ LET c == unitSeen[u].campaign IN
     \/ /\ posts' = [posts EXCEPT ![c][DayOf(now)] = @ + 1]
        /\ unitSeen' = [unitSeen EXCEPT ![u].posted = TRUE]
        /\ unitPc' = [unitPc EXCEPT ![u] = "generated"]
     \/ /\ unitPc' = [unitPc EXCEPT ![u] = "done"]
        /\ UNCHANGED <<posts, unitSeen>>
  /\ UNCHANGED <<now, next_run_at, restOfSched>>
  /\ UNCHANGED <<calcVars, retryVars, genVars, statusVars, fnVars, publishVars, connVars, histVars>>

\* campaign.next_run_at = self._calculate_next_run_time(...); db.commit()
UnitCommit(u) ==
  /\ unitPc[u] = "generated"
  /\ LET c == unitSeen[u].campaign IN
     \E taken \in BOOLEAN, sv \in SilenceInputs(c) :
       LET calc == CalcRecord(now, max_daily_posts[c], posts[c][DayOf(now)], taken, sv)
       IN next_run_at' = IF calc.ok THEN [next_run_at EXCEPT ![c] = calc.value]
                         ELSE next_run_at
  /\ unitPc' = [unitPc EXCEPT ![u] = "done"]
  /\ UNCHANGED <<now, posts, unitSeen, restOfSched>>
  /\ UNCHANGED <<calcVars, retryVars, genVars, statusVars, fnVars, publishVars, connVars, histVars>>

\* A minute passes and the schedule fires again.  The provider call of
\* generate_social_post can take that long; the commit that follows its
\* return has no await in between and does not.
RaceClock ==
  /\ \A u \in Units : unitPc[u] # "generated"
  /\ now + CronPeriod <= MaxRaceTime
  /\ now' = now + CronPeriod
  /\ UNCHANGED <<next_run_at, posts, restOfSched, raceVars, publishVars, connVars, histVars>>
  /\ UNCHANGED <<calcVars, retryVars, genVars, statusVars, fnVars, publishVars, connVars, histVars>>

RaceInit ==
  /\ SchedIdle
  /\ CalcIdle
  /\ RetryIdle
  /\ HistIdle
  /\ ConnIdle
  /\ PublishIdle
  /\ RaceIdle
  /\ OthersIdle

RaceNext ==
  \/ \E u \in Units : UnitCheck(u)
  \/ \E u \in Units : UnitRequest(u)
  \/ \E u \in Units : UnitGenerate(u)
  \/ \E u \in Units : UnitCommit(u)
  \/ RaceClock

SpecRace == RaceInit /\ [][RaceNext]_vars

\* ------------------------------------------------------- style selection
PostStyle == {"thread", "meme", "question", "fud_response", "news", "analysis",
              "tutorial", "poll", "discussion"}

\* Styles of the recent posts tried.
RecentStyles == {"meme", "thread", "tutorial"}

\* PostPerformance metrics of a recent post, in thousandths; has_rows is
\* FALSE when the post has no PostAnalytics or no PostPerformance row.
RecentMetrics ==
  {[has_rows |-> FALSE, engagement_rate |-> 0, virality_score |-> 0, sentiment_score |-> 0],
   [has_rows |-> TRUE, engagement_rate |-> 50, virality_score |-> 800, sentiment_score |-> 700],
   [has_rows |-> TRUE, engagement_rate |-> 20, virality_score |-> 500, sentiment_score |-> 500],
   [has_rows |-> TRUE, engagement_rate |-> 0, virality_score |-> 0, sentiment_score |-> 0]}

StyledPosts == [post_style : RecentStyles, performance : RecentMetrics]

MaxRecentStyled == 2

RecentStyledWindows ==
  UNION {[1..n -> StyledPosts] : n \in 0..MaxRecentStyled}

\* A dict is the set of its <<key, value>> items.
EmptyDict == {}

\* _analyze_post_performance: performance_data is created empty, the loop
\* never writes to it, and it is returned.
analyze_post_performance(recent_posts) == EmptyDict

\* AntiDetectionService.generate_message_style; choice: index random.choice takes.
generate_message_style(campaign_phase, choice) ==
  LET styles == IF campaign_phase = "early" THEN <<"thread", "question", "news">>
                ELSE IF campaign_phase = "mid" THEN <<"meme", "analysis", "fud_response">>
                ELSE <<"thread", "analysis", "fud_response">>
  IN styles[choice]

StyleChoices == 1..3

\* random.choices(styles, weights, k=1)[0]: a style of non-zero weight;
\* ValueError when the weights sum to zero.
weighted_choices(style_distribution) ==
  {item[1] : item \in {i \in style_distribution : i[2] > 0}}

\* _determine_post_style; the result is the set of styles it can return
\* for the given random.choice index.
determine_post_style(campaign_phase, successful_patterns, choice) ==
  IF successful_patterns = EmptyDict
  THEN {generate_message_style(campaign_phase, choice)}
  ELSE LET found == {item \in successful_patterns : item[1] = "styles"}
           style_distribution == IF found = {} THEN EmptyDict
                                 ELSE (CHOOSE item \in found : TRUE)[2]
       IN IF style_distribution # EmptyDict
          THEN IF weighted_choices(style_distribution) = {} THEN {"ValueError"}
               ELSE weighted_choices(style_distribution)
          ELSE {generate_message_style(campaign_phase, choice)}

StyleInit ==
  /\ SchedIdle
  /\ CalcIdle
  /\ RetryIdle
  /\ HistIdle
  /\ ConnIdle
  /\ PublishIdle
  /\ RaceIdle
  /\ GenIdle
  /\ StatusIdle
  /\ fnOut = NoFn
  /\ \E ph \in CampaignPhase, w \in RecentStyledWindows :
       fnIn = [fn |-> "style", campaign_phase |-> ph, recent_posts |-> w]

\* successful_patterns = _analyze_post_performance(...), then
\* _determine_post_style(campaign_phase, successful_patterns).
DeterminePostStyle ==
  /\ fnIn.fn = "style"
  /\ fnOut = NoFn
  /\ \E choice \in StyleChoices :
       LET successful_patterns == analyze_post_performance(fnIn.recent_posts) IN
       \E st \in determine_post_style(fnIn.campaign_phase, successful_patterns, choice) :
         fnOut' = [fn |-> "style", successful_patterns |-> successful_patterns,
                   post_style |-> st]
  /\ UNCHANGED <<fnIn, schedVars, calcVars, retryVars, genVars, statusVars, raceVars, publishVars, connVars, histVars>>

StyleNext == DeterminePostStyle

SpecStyle == StyleInit /\ [][StyleNext]_vars

\* ------------------------------------------------- post-processing
\* Raw texts the provider returns: one without markdown, one in bold.
RawTexts == {<<"gm">>, <<"**gm**">>}

\* _apply_platform_formatting on one piece of the text: Telegram turns
\* "**" into "*", Discord turns every "*" into "**"; a mark a humanizer
\* transformation left is not markdown and stays as it is.
format_piece(piece, platform_type) ==
  IF platform_type = "telegram" /\ piece = "**gm**" THEN "*gm*"
  ELSE IF platform_type = "discord" /\ piece = "**gm**" THEN "****gm****"
  ELSE piece

apply_platform_formatting(content, platform_type) ==
  [i \in 1..Len(content) |-> format_piece(content[i], platform_type)]

ZeroMetrics ==
  [likes |-> 0, shares |-> 0, comments |-> 0, views |-> 0, clicks |-> 0,
   sentiment_score |-> 0, engagement_rate |-> 0, virality_score |-> 0]

\* add_social_post as _store_post_with_analytics calls it: no embeddings
\* argument, so the column is NULL; engagement_metrics is not set.
add_social_post(content) ==
  [content |-> content, status |-> "draft", embeddings |-> "None",
   engagement_metrics |-> "None"]

\* The PostPerformance row of _store_post_with_analytics.
post_performance_row(content) ==
  [content |-> content, engagement_metrics |-> ZeroMetrics, embeddings |-> "None",
   virality_score |-> 0, engagement_rate |-> 0, sentiment_score |-> 0]

\* _generate_and_process_post after the provider returned raw text, with
\* the input and output of each step and the get_embeddings calls made.
generate_and_process_post(raw, platform_type, ai_creativity_level, order, draw) ==
  LET formatted == apply_platform_formatting(raw, platform_type)
      humanized == apply_human_like_patterns(formatted, ai_creativity_level, "mobile",
                                             order, draw)
  IN [fn |-> "compose",
      formatter_input |-> raw, formatter_output |-> formatted,
      humanizer_input |-> formatted, humanizer_output |-> humanized,
      humanizer_intensity |-> ai_creativity_level,
      embedding_requests |-> <<>>,
      social_post |-> add_social_post(humanized),
      post_performance |-> post_performance_row(humanized)]

ComposeInit ==
  /\ SchedIdle
  /\ CalcIdle
  /\ RetryIdle
  /\ HistIdle
  /\ ConnIdle
  /\ PublishIdle
  /\ RaceIdle
  /\ GenIdle
  /\ StatusIdle
  /\ fnOut = NoFn
  /\ \E raw \in RawTexts, pt \in PlatformType, i \in Intensities, o \in ShuffledOrders,
        r \in [SeqToSet(Transformations) -> RandomDraws] :
       fnIn = [fn |-> "compose", raw |-> raw, platform_type |-> pt,
               ai_creativity_level |-> i, order |-> o, draw |-> r]

GenerateAndProcessPost ==
  /\ fnIn.fn = "compose"
  /\ fnOut = NoFn
  /\ fnOut' = generate_and_process_post(fnIn.raw, fnIn.platform_type,
                                        fnIn.ai_creativity_level, fnIn.order, fnIn.draw)
  /\ UNCHANGED <<fnIn, schedVars, calcVars, retryVars, genVars, statusVars, raceVars, publishVars, connVars, histVars>>

ComposeNext == GenerateAndProcessPost

SpecCompose == ComposeInit /\ [][ComposeNext]_vars

\* ---------------------------------------------------- engagement patterns
\* EngagementPattern rows of the campaign.  pattern_value is the first 100
\* characters of the content; the posts tried share their content, so a
\* row is identified by its pattern_type (the style).
EngagementPatterns == [pattern_type : RecentStyles, sample_size : {1}]

\* The body of the coroutine _store_engagement_pattern: add the row and
\* commit; uq_pattern rejects a second row with the same key.
store_engagement_pattern(engagement_patterns, post) ==
  LET pattern == [pattern_type |-> post.post_style, sample_size |-> 1]
  IN IF \E e \in engagement_patterns : e.pattern_type = pattern.pattern_type
     THEN [ok |-> FALSE, engagement_patterns |-> engagement_patterns]
     ELSE [ok |-> TRUE, engagement_patterns |-> engagement_patterns \cup {pattern}]

\* The loop of _analyze_post_performance.  It calls the async
\* _store_engagement_pattern without await: the coroutine object is
\* created and dropped, its body never runs.
RECURSIVE analyze_and_store(_, _)
analyze_and_store(recent_posts, engagement_patterns) ==
  IF recent_posts = <<>> THEN engagement_patterns
  ELSE LET post == Head(recent_posts)
           performance_level ==
             determine_performance_level(post.performance.engagement_rate,
                                         post.performance.virality_score,
                                         post.performance.sentiment_score)
           coroutine == store_engagement_pattern(engagement_patterns, post)
           after == IF post.performance.has_rows /\ performance_level \in {"high", "medium"}
                    THEN engagement_patterns
                    ELSE engagement_patterns
       IN analyze_and_store(Tail(recent_posts), after)

PatternsInit ==
  /\ SchedIdle
  /\ CalcIdle
  /\ RetryIdle
  /\ HistIdle
  /\ ConnIdle
  /\ PublishIdle
  /\ RaceIdle
  /\ GenIdle
  /\ StatusIdle
  /\ fnOut = NoFn
  /\ \E w \in RecentStyledWindows, e \in SUBSET EngagementPatterns :
       fnIn = [fn |-> "analyze", recent_posts |-> w, engagement_patterns |-> e]

AnalyzePostPerformance ==
  /\ fnIn.fn = "analyze"
  /\ fnOut = NoFn
  /\ fnOut' = [fn |-> "analyze",
               performance_data |-> analyze_post_performance(fnIn.recent_posts),
               engagement_patterns |-> analyze_and_store(fnIn.recent_posts,
                                                         fnIn.engagement_patterns)]
  /\ UNCHANGED <<fnIn, schedVars, calcVars, retryVars, genVars, statusVars, raceVars, publishVars, connVars, histVars>>

PatternsNext == AnalyzePostPerformance

SpecPatterns == PatternsInit /\ [][PatternsNext]_vars

\* ------------------------------------------------------ Telegram delivery
TelegramInit ==
  /\ SchedIdle
  /\ CalcIdle
  /\ RetryIdle
  /\ HistIdle
  /\ ConnIdle
  /\ PublishIdle
  /\ RaceIdle
  /\ GenIdle
  /\ StatusIdle
  /\ fnOut = NoFn
  /\ \E n \in 0..MaxChats, rc \in RetryCounts, b \in BOOLEAN, cfg \in BOOLEAN :
       \E o \in [1..n -> SendOutcomes] :
         fnIn = [fn |-> "telegram", retry_count |-> rc, has_bot_id |-> b,
                 bot_config |-> cfg, outcomes |-> o]

PublishToTelegram ==
  /\ fnIn.fn = "telegram"
  /\ fnOut = NoFn
  /\ fnOut' = publish_to_telegram(fnIn.retry_count, fnIn.has_bot_id, fnIn.bot_config,
                                  fnIn.outcomes)
  /\ UNCHANGED <<fnIn, schedVars, calcVars, retryVars, genVars, statusVars, raceVars, publishVars, connVars, histVars>>

TelegramNext == PublishToTelegram

SpecTelegram == TelegramInit /\ [][TelegramNext]_vars

\* ===================================================================
\* Properties
\* ===================================================================
\* The eligibility predicate as the specification states it.
Eligible(c) ==
  /\ is_active[c]
  /\ ~is_paused[c]
  /\ status[c] = "RUNNING"
  /\ workspace.is_active
  /\ ~workspace.is_deleted
  /\ has_settings[c]
  /\ ~emergency_stop_enabled[c]
  /\ connected[c] # {}
  /\ next_run_at[c] <= now

\* The step is the visit of campaign c by the loop of process_eligible_campaigns.
TickVisits(c) ==
  /\ tickPc = "running"
  /\ batch # <<>>
  /\ Head(batch) = c
  /\ batch' # batch

\* The step runs process_campaign for campaign c.
RanCycleFor(c) == cycles' = cycles + 1 /\ lastCycle'.campaign = c

CampaignRows(c) ==
  <<exists[c], status[c], next_run_at[c], has_settings[c], emergency_stop_enabled[c],
    max_daily_posts[c], connected[c], posts[c], queue[c]>>

ConfigError == "ValueError: posts_per_day"

C2_CapLandsOnNextMidnight ==
  (calcOut.called /\ calcOut.ok /\ calcOut.posts_today >= calcOut.posts_per_day)
    => calcOut.value = Midnight(calcOut.at) + MinutesPerDay

\* C3: for every positive max_daily_posts the computation returns a time
\* strictly later than the time of the call; it never fails.
C3_AlwaysStrictlyLater ==
  (calcOut.called /\ calcOut.posts_per_day > 0)
    => (calcOut.ok /\ calcOut.value > calcOut.at)

\* C4: with max_daily_posts <= 0 the computation raises the configuration
\* error, produces no next-run time, and next_run_at keeps its value.
C4_NonPositiveFailsFast ==
  [][\A c \in Campaigns :
       (RanCycleFor(c) /\ lastCycle'.calc.called /\ max_daily_posts[c] <= 0) =>
         /\ ~lastCycle'.calc.ok
         /\ lastCycle'.errs = {ConfigError}
         /\ lastCycle'.outcome = "calc_error"
         /\ next_run_at'[c] = next_run_at[c]]_vars

C4_Witness ==
  /\ lastCycle.calc.called
  /\ lastCycle.calc.posts_per_day <= 0
  /\ lastCycle.calc.err = ConfigError
  /\ next_run_at[lastCycle.campaign] = 0

\* base_interval = 24 / max_daily_posts hours, in minutes.
BaseInterval(ppd) == (HoursPerDay * MinutesPerHour) \div ppd

\* C5: below the daily cap, next-run = now + base_interval + j with j = 0 or
\* 1 hour <= j <= 2 x base_interval, hence next-run <= now + 3 x base_interval.
C5_JitterBounded ==
  (calcOut.called /\ calcOut.ok /\ calcOut.posts_today < calcOut.posts_per_day) =>
    LET base == BaseInterval(calcOut.posts_per_day)
        j == calcOut.value - calcOut.at - base
    IN /\ j = 0 \/ (MinutesPerHour <= j /\ j <= 2 * base)
       /\ calcOut.value <= calcOut.at + 3 * base

C5_Witness ==
  /\ calcOut.called /\ calcOut.ok /\ calcOut.taken
  /\ calcOut.posts_today < calcOut.posts_per_day
  /\ calcOut.value = calcOut.at + 3 * BaseInterval(calcOut.posts_per_day)

\* C6 as stated: with max_daily_posts = 12 and the cap not reached, every
\* next-run time lies in [now + 1h, now + 4h].
C6_WithinFourHours ==
  (calcOut.called /\ calcOut.ok /\ calcOut.posts_per_day = 12 /\ calcOut.posts_today < 12) =>
    /\ calcOut.at + 1 * MinutesPerHour <= calcOut.value
    /\ calcOut.value <= calcOut.at + 4 * MinutesPerHour

\* C6 amended: with max_daily_posts = 12 and the cap not reached, every
\* next-run time lies in [now + 1h, now + 6h].
C6_WithinSixHours ==
  (calcOut.called /\ calcOut.ok /\ calcOut.posts_per_day = 12 /\ calcOut.posts_today < 12) =>
    /\ calcOut.at + 1 * MinutesPerHour <= calcOut.value
    /\ calcOut.value <= calcOut.at + 6 * MinutesPerHour

C6_Witness ==
  /\ calcOut.called /\ calcOut.ok /\ calcOut.posts_per_day = 12 /\ calcOut.posts_today = 0
  /\ calcOut.value = calcOut.at + 6 * MinutesPerHour

\* C7: a failure in one (campaign, platform) unit never prevents the other
\* units of the tick from being attempted: a tick ends only when every
\* fetched campaign was visited, and a cycle whose unit failed has tried
\* every connected platform.
C7_FailureIsolated ==
  [][/\ (tickPc = "running" /\ tickPc' = "idle") => batch = <<>>
     /\ \A c \in Campaigns :
          (RanCycleFor(c) /\ lastCycle'.outcome \in {"all_failed", "calc_error"})
            => Len(lastCycle'.tried) = Cardinality(connected[c])]_vars

\* C8: a cycle that fails for a reason other than a configuration error
\* leaves next_run_at as it was, so a campaign that was due stays due.
FailedOutcomes == {"all_failed", "no_campaign", "no_settings", "no_platforms", "db_error"}

C9_ConfigErrorIsFatal ==
  [][\A c \in Campaigns :
       /\ (RanCycleFor(c) /\ ConfigError \in lastCycle'.errs) => Len(lastCycle'.posted) <= 1
       /\ (lastCycle.campaign = c /\ ConfigError \in lastCycle.errs /\ max_daily_posts[c] <= 0)
            => ~RanCycleFor(c)]_vars

\* C10: a provider call whose attempts fail with a transient failure is
\* attempted 3 times in all before the failure reaches the caller, and never
\* a fourth time.
C10_TransientRetriedThrice ==
  /\ attempt_number <= StopAfterAttempt
  /\ (callPc = "raised" /\ \A i \in 1..Len(failures) : failures[i] \in TransientErrors)
       => Len(failures) = StopAfterAttempt

\* C11: when the text provider never returns text for an attempt, the
\* error leaves generate_social_post and the attempt writes no SocialPost,
\* PostAnalytics or PostPerformance row.
C11_NoTextNoRows ==
  /\ genIn.llm # "text" => (rows = NoRows /\ genPc # "done")
  /\ genRaised = "LLMProviderError" => (genPc = "raised" /\ rows = NoRows)

C11_Witness ==
  /\ genIn.llm = "raises"
  /\ genPc = "raised"
  /\ genRaised = "LLMProviderError"
  /\ rows = NoRows

\* C19: whatever the market-data, trending, news and token-movement
\* fetches do, and whether or not the campaign has a token address,
\* building the generation context succeeds and generation goes on.
C19_ContextDegrades ==
  genPc # "start" => (genRaised # "ValidationError" /\ context.market_data \in {"None", "MarketData"})

\* Position of a status on DRAFT -> SCHEDULED -> terminal.
StatusRank(st) == IF st = "draft" THEN 0 ELSE IF st = "scheduled" THEN 1 ELSE 2

\* C12: over any sequence of update_post_status and publish_post calls a
\* post's status only moves forward along DRAFT -> SCHEDULED -> terminal:
\* it never goes back and never leaves a terminal status.
C12_StatusMonotonic ==
  [][\A p \in DOMAIN post_status :
       post_status'[p] # post_status[p] =>
         StatusRank(post_status[p]) < StatusRank(post_status'[p])]_vars

PhaseRank(p) == IF p = "early" THEN 0 ELSE IF p = "mid" THEN 1 ELSE 2

\* EARLY below the first breakpoint, MID below the second, LATE otherwise.
PhaseByBreakpoints(d, first, second) ==
  IF d < first THEN "early" ELSE IF d < second THEN "mid" ELSE "late"

\* C13: for every timeline and every elapsed number of days, negative ones
\* included, the phase is one of EARLY, MID, LATE, does not decrease as the
\* days grow, is EARLY before the start date, and follows the breakpoints
\* (2, 5) for ONE_WEEK and (120, 240) for ONE_YEAR.
C13_PhaseTotalMonotonic ==
  fnOut.fn = "phase" =>
    /\ fnOut.phase1 \in CampaignPhase
    /\ fnOut.phase2 \in CampaignPhase
    /\ PhaseRank(fnOut.phase1) <= PhaseRank(fnOut.phase2)
    /\ fnIn.days1 < 0 => fnOut.phase1 = "early"
    /\ fnIn.campaign_timeline = "1 Week" =>
         fnOut.phase1 = PhaseByBreakpoints(fnIn.days1, 2, 5)
    /\ fnIn.campaign_timeline = "1 Year" =>
         fnOut.phase1 = PhaseByBreakpoints(fnIn.days1, 120, 240)

C13_Witness ==
  /\ fnOut.fn = "phase"
  /\ fnIn.campaign_timeline = "1 Week"
  /\ fnIn.days1 = 2 /\ fnOut.phase1 = "mid"
  /\ fnIn.days2 = 5 /\ fnOut.phase2 = "late"

\* Number of posts of a stage in a history.
Seen(h, stage) == Cardinality({i \in 1..Len(h) : h[i] = stage})

\* The greedy quota list of a phase: <<stage, quota>> pairs, then the fallback.
QuotaStage(h, first, q1, second, q2, fallback) ==
  IF Seen(h, first) < q1 THEN first
  ELSE IF Seen(h, second) < q2 THEN second
  ELSE fallback

\* C14: for every phase and every recent history, the empty one included,
\* the stage is the one the phase's quota list gives: EARLY INTRO(<2),
\* HYPE(<3), MEME; MID DEEP_DIVE(<2), HYPE(<3), MEME; LATE CTA(<2),
\* DEEP_DIVE(<2), HYPE; with no history INTRO, DEEP_DIVE, CTA.
C14_StageFollowsQuota ==
  fnOut.fn = "stage" =>
    LET h == fnIn.recent_posts IN
    /\ fnIn.campaign_phase = "early" =>
         fnOut.stage = QuotaStage(h, "intro", 2, "hype", 3, "meme")
    /\ fnIn.campaign_phase = "mid" =>
         fnOut.stage = QuotaStage(h, "deep_dive", 2, "hype", 3, "meme")
    /\ fnIn.campaign_phase = "late" =>
         fnOut.stage = QuotaStage(h, "cta", 2, "deep_dive", 2, "hype")
    /\ h = <<>> =>
         fnOut.stage = (IF fnIn.campaign_phase = "early" THEN "intro"
                        ELSE IF fnIn.campaign_phase = "mid" THEN "deep_dive" ELSE "cta")

C14_Witness ==
  /\ fnOut.fn = "stage"
  /\ fnIn.campaign_phase = "late"
  /\ Seen(fnIn.recent_posts, "cta") = 2
  /\ Seen(fnIn.recent_posts, "deep_dive") = 1
  /\ fnOut.stage = "deep_dive"

\* C15: at intensity 0 apply_human_like_patterns returns the text it was
\* given, for every text, device, shuffle and random draw.
C15_ZeroIntensityIsIdentity ==
  (fnOut.fn = "humanize" /\ fnIn.intensity = 0) => fnOut.text = fnIn.text

C15_Witness ==
  /\ fnOut.fn = "humanize"
  /\ fnIn.intensity = 0
  /\ \A t \in DOMAIN fnIn.draw : fnIn.draw[t] = 0
  /\ fnIn.text = <<"gm">>
  /\ fnOut.text = <<"gm">>

\* The three thresholds e, v, t are all met by the metrics of the call.
MeetsAll(e, v, t) ==
  /\ fnIn.engagement_rate >= e
  /\ fnIn.virality_score >= v
  /\ fnIn.sentiment_score >= t

\* C16: the tier is the highest of high (0.05, 0.8, 0.7), medium
\* (0.02, 0.5, 0.5), low (0.01, 0.3, 0.3) whose three thresholds are all
\* met, and low when none is; a post meeting the three high thresholds is high.
C16_HighestTierMet ==
  fnOut.fn = "tier" =>
    fnOut.level = (IF MeetsAll(50, 800, 700) THEN "high"
                   ELSE IF MeetsAll(20, 500, 500) THEN "medium"
                   ELSE "low")

C16_Witness ==
  /\ fnOut.fn = "tier"
  /\ fnIn.engagement_rate = 50 /\ fnIn.virality_score = 800 /\ fnIn.sentiment_score = 700
  /\ fnOut.level = "high"

\* Position of a component in the insertion order of the components list.
InsertionIndex(comp) == CHOOSE i \in 1..Len(ComponentNames) : ComponentNames[i] = comp

\* The k-th fragment of the prompt, the separators skipped.
Fragment(k) == fnOut.prompt[2 * k - 1]

\* C17: the final prompt is the eight fragments, separated by blank lines,
\* in descending order of weight, fragments of equal weight in their
\* insertion order (persona, project-info, platform, trending, strategy,
\* memory, performance, time-awareness).
C17_PromptByDescendingWeight ==
  fnOut.fn = "combine" =>
    /\ Len(fnOut.prompt) = 2 * Len(ComponentNames) - 1
    /\ \A k \in 1..(Len(ComponentNames) - 1) : fnOut.prompt[2 * k] = BlankLine
    /\ {Fragment(k) : k \in 1..Len(ComponentNames)} = ComponentSet
    /\ \A j \in 1..Len(ComponentNames), k \in 1..Len(ComponentNames) :
         j < k =>
           \/ fnIn.weight[Fragment(j)] > fnIn.weight[Fragment(k)]
           \/ /\ fnIn.weight[Fragment(j)] = fnIn.weight[Fragment(k)]
              /\ InsertionIndex(Fragment(j)) < InsertionIndex(Fragment(k))

C17_Witness ==
  /\ fnOut.fn = "combine"
  /\ fnIn.weight["persona"] = fnIn.weight["time_awareness"]
  /\ fnIn.weight["persona"] > fnIn.weight["project_info"]
  /\ Fragment(1) = "persona"
  /\ \E k \in 2..Len(ComponentNames) : Fragment(k) = "time_awareness"

\* C18: add_random_silence returns base_time unchanged or base_time plus a
\* delay d of the given unit with min <= d <= max, never an earlier time,
\* and never fails, for the units and ranges its callers pass.
C18_SilenceNeverFails ==
  fnOut.fn = "silence" =>
    /\ fnOut.ok
    /\ fnOut.time >= fnIn.next_post_time
    /\ \/ fnOut.time = fnIn.next_post_time
       \/ \E d \in fnIn.min_val..fnIn.max_val :
            fnOut.time = fnIn.next_post_time + d * UnitMinutes(fnIn.unit)

\* C20: in one tick each eligible campaign gets one unit of work: at most
\* one generation cycle, and next_run_at advanced at most once.  The task
\* a tick queues for a campaign it has already generated a post for
\* neither generates another post nor advances next_run_at again.
C20_OneUnitPerTick ==
  [][\A c \in Campaigns :
       (/\ lastCycle.campaign = c
        /\ lastCycle.by = "tick"
        /\ lastCycle.outcome = "posted"
        /\ queue[c] > 0
        /\ RanCycleFor(c)
        /\ lastCycle'.by = "task") =>
         /\ lastCycle'.posted = <<>>
         /\ next_run_at'[c] = next_run_at[c]]_vars

\* C21: one run of process_campaign in which no generation fails leaves a
\* new post for every connected platform of the campaign, and then re-arms
\* the scheduler.
C21_EveryConnectedPlatformPosted ==
  [][\A c \in Campaigns :
       (/\ RanCycleFor(c)
        /\ lastCycle'.outcome = "posted"
        /\ lastCycle'.tried = lastCycle'.posted) =>
         /\ SeqToSet(lastCycle'.posted) = connected[c]
         /\ next_run_at'[c] = lastCycle'.calc.value]_vars

\* C22: the advance of next_run_at is atomic with the eligibility read that
\* produced it: two units that both read next_run_at <= now for a campaign
\* never both generate a post for that same due time.
C22_AdvanceAtomicWithRead ==
  \A u \in Units, v \in Units :
    (/\ u # v
     /\ unitSeen[u].checked /\ unitSeen[v].checked
     /\ unitSeen[u].posted /\ unitSeen[v].posted
     /\ unitSeen[u].campaign = unitSeen[v].campaign)
      => unitSeen[u].next_run_at # unitSeen[v].next_run_at

\* Styles of the recent posts of the call that are tiered high or medium.
SuccessfulStyles ==
  {fnIn.recent_posts[i].post_style : i \in
     {j \in 1..Len(fnIn.recent_posts) :
        /\ fnIn.recent_posts[j].performance.has_rows
        /\ LET m == fnIn.recent_posts[j].performance IN
           \/ (m.engagement_rate >= 50 /\ m.virality_score >= 800 /\ m.sentiment_score >= 700)
           \/ (m.engagement_rate >= 20 /\ m.virality_score >= 500 /\ m.sentiment_score >= 500)}}

PhaseStyles ==
  [early |-> {"thread", "question", "news"},
   mid   |-> {"meme", "analysis", "fud_response"},
   late  |-> {"thread", "analysis", "fud_response"}]

\* C23: when at least one recent post is tiered high or medium the chosen
\* style is one of the styles of the success-pattern distribution (it has
\* non-zero weight there); otherwise it is one of the three candidate
\* styles of the current phase.
C23_StyleFromSuccessPatterns ==
  fnOut.fn = "style" =>
    IF SuccessfulStyles # {}
    THEN fnOut.post_style \in SuccessfulStyles
    ELSE fnOut.post_style \in PhaseStyles[fnIn.campaign_phase]

\* C24: the provider's raw text goes through the Humanizer first, at
\* intensity = the creativity level of the settings, and platform
\* formatting is applied only then, to the humanized text; the stored
\* content is the formatted humanized text.
C24_HumanizeThenFormat ==
  fnOut.fn = "compose" =>
    /\ fnOut.humanizer_input = fnIn.raw
    /\ fnOut.humanizer_intensity = fnIn.ai_creativity_level
    /\ fnOut.formatter_input = fnOut.humanizer_output
    /\ fnOut.social_post.content = fnOut.formatter_output

\* C25: a successful composition requests an embedding for the final text
\* and persists a post whose status is DRAFT or SCHEDULED, whose engagement
\* metrics are all zero and whose embedding field holds that embedding.
C25_EmbeddingStoredWithPost ==
  fnOut.fn = "compose" =>
    /\ fnOut.embedding_requests = <<fnOut.social_post.content>>
    /\ fnOut.social_post.status \in {"draft", "scheduled"}
    /\ fnOut.post_performance.engagement_metrics = ZeroMetrics
    /\ fnOut.social_post.embeddings # "None"

\* C26: after performance analysis every analysed post tiered high or
\* medium is recorded in the EngagementPattern store, as a new record or
\* folded into the existing one of its key, and no record was deleted.
C26_SuccessfulPostsRecorded ==
  fnOut.fn = "analyze" =>
    /\ \A st \in SuccessfulStyles :
         \E e \in fnOut.engagement_patterns : e.pattern_type = st
    /\ \A e \in fnIn.engagement_patterns :
         \E f \in fnOut.engagement_patterns : f.pattern_type = e.pattern_type

\* Number of chats of the call whose send succeeded.
SuccessCount ==
  Cardinality({i \in 1..Len(fnIn.outcomes) : fnIn.outcomes[i] = "sent"})

\* C30: for a post sent to the n >= 1 configured chats of a campaign, the
\* post is PUBLISHED exactly when all n sends succeed, PARTIALLY_PUBLISHED
\* exactly when some but not all succeed, FAILED with retry_count plus one
\* exactly when none succeeds; every chat is sent to whatever happens in
\* the other chats.
C30_TelegramOutcome ==
  (/\ fnOut.fn = "telegram"
   /\ fnIn.has_bot_id /\ fnIn.bot_config
   /\ Len(fnIn.outcomes) >= 1) =>
    LET n == Len(fnIn.outcomes) IN
    /\ fnOut.attempted = n
    /\ fnOut.status = "published" <=> SuccessCount = n
    /\ fnOut.status = "partially_published" <=> (0 < SuccessCount /\ SuccessCount < n)
    /\ (fnOut.status = "failed" /\ fnOut.retry_count = fnIn.retry_count + 1)
         <=> SuccessCount = 0

\* The step is a publish_post call for post p.
PublishStep(p) ==
  /\ statusOps' = statusOps + 1
  /\ statusOp'.op = "publish_post"
  /\ statusOp'.post_id = p

Unpublished == {PostStatusMembers.DRAFT, PostStatusMembers.SCHEDULED}

\* C27: a publish_post call for a draft or scheduled post of a campaign whose
\* emergency stop is engaged makes the post CANCELLED, records the emergency
\* stop as the failure reason and sends nothing to a platform.
C27_EmergencyStopCancels ==
  [][\A p \in Posts :
       (/\ PublishStep(p)
        /\ post_status[p] \in Unpublished
        /\ exists[campaign_id(p)]
        /\ has_settings[campaign_id(p)]
        /\ emergency_stop_enabled[campaign_id(p)]) =>
         /\ post_status'[p] = "cancelled"
         /\ post_metadata'[p].failure_reason = "Emergency stop activated for campaign"
         /\ sends'[p] = sends[p]]_vars

\* C28: a publish_post call for a post not yet delivered, on a campaign
\* that exists and is not stopped, is an attempt while retry_count is below
\* MAX_PUBLISH_RETRIES (the post is published, or the failure is recorded
\* with retry_count plus one); once retry_count has reached the limit the
\* call makes the post CANCELLED and sends nothing; retry_count never
\* exceeds the limit.
C28_RetryUntilLimit ==
  [][\A p \in Posts :
       (/\ PublishStep(p)
        /\ post_status[p] \in Unpublished \cup {PostStatusMembers.FAILED}
        /\ exists[campaign_id(p)]
        /\ ~(has_settings[campaign_id(p)] /\ emergency_stop_enabled[campaign_id(p)])) =>
         /\ post_metadata'[p].retry_count <= MAX_PUBLISH_RETRIES
         /\ IF post_metadata[p].retry_count < MAX_PUBLISH_RETRIES
            THEN \/ post_status'[p] = PostStatusMembers.PUBLISHED
                 \/ /\ post_status'[p] = PostStatusMembers.FAILED
                    /\ post_metadata'[p].retry_count = post_metadata[p].retry_count + 1
            ELSE /\ post_status'[p] = "cancelled"
                 /\ sends'[p] = sends[p]]_vars

\* C29: a publish_post call for a post whose status is neither SCHEDULED nor
\* DRAFT sends nothing and leaves the post's status and metadata as they
\* were; no post is delivered by more than one call.
C29_FinishedPostsUntouched ==
  [][\A p \in Posts :
       /\ delivered'[p] <= 1
       /\ (PublishStep(p) /\ post_status[p] \notin Unpublished) =>
            /\ post_status'[p] = post_status[p]
            /\ post_metadata'[p] = post_metadata[p]
            /\ sends'[p] = sends[p]
            /\ delivered'[p] = delivered[p]]_vars

\* publish_post was called for a published post and returned.
C29_WitnessPublishedSkipped ==
  /\ statusOp.op = "publish_post"
  /\ statusOp.post_id \in Posts
  /\ statusOp.result = "returned"
  /\ post_status[statusOp.post_id] = PostStatusMembers.PUBLISHED

\* C31: after any sequence of scheduler ticks and of the tasks they queue,
\* the number of posts created for a campaign since midnight does not
\* exceed the campaign's max_daily_posts.
C31_DailyQuotaRespected ==
  \A c \in Campaigns : posts[c][DayOf(now)] <= max_daily_posts[c]

\* C32: no run of process_campaign, whether started by the scheduler batch,
\* by a queued run_campaign_shilling task or by the generate-post route,
\* generates a post for a campaign whose emergency stop is enabled.
C32_NoPostUnderEmergencyStop ==
  [][\A c \in Campaigns :
       (RanCycleFor(c) /\ has_settings[c] /\ emergency_stop_enabled[c]) =>
         /\ lastCycle'.posted = <<>>
         /\ posts'[c] = posts[c]]_vars

\* The completion percentage of the campaign of the call.
CompletedPercentage == get_campaign_completion_percentage(fnIn.completed, fnIn.total)

\* C33: toggle_publish moves a campaign only from RUNNING to PAUSED and from
\* PAUSED or PENDING to RUNNING; it moves to RUNNING only with a completion
\* percentage of at least 70 and at least one connected platform; when one
\* of these fails, or the campaign is COMPLETED or CANCELLED, the request is
\* rejected and the status is unchanged.
C33_TogglePublishTransitions ==
  (fnOut.fn = "toggle" /\ fnIn.found) =>
    /\ fnOut.status # fnIn.status =>
         \/ fnIn.status = "RUNNING" /\ fnOut.status = "PAUSED"
         \/ fnIn.status \in {"PAUSED", "PENDING"} /\ fnOut.status = "RUNNING"
    /\ (fnIn.status # "RUNNING" /\ fnOut.status = "RUNNING") =>
         CompletedPercentage >= 70 /\ fnIn.n >= 1
    /\ (\/ fnIn.status \in {"COMPLETED", "CANCELLED"}
        \/ /\ fnIn.status \in {"PAUSED", "PENDING"}
           /\ (CompletedPercentage < 70 \/ fnIn.n < 1)) =>
         fnOut.code = 400 /\ fnOut.status = fnIn.status

\* A paused campaign, complete enough and connected, was set running.
C33_WitnessPublished ==
  /\ fnOut.fn = "toggle"
  /\ fnIn.found
  /\ fnIn.status = "PAUSED"
  /\ CompletedPercentage >= 70
  /\ fnIn.n >= 1
  /\ fnOut.status = "RUNNING"

\* C34: after any interleaving of Telegram connection initiations and
\* callbacks for different campaigns, no managed bot has more campaigns
\* attached than its max_campaigns, and no campaign is attached to a bot
\* that is inactive or exclusive.
C34_BotPoolCapacity ==
  \A b \in DOMAIN bots :
    /\ Cardinality(connected_campaigns(b)) <= bots[b].max_campaigns
    /\ connected_campaigns(b) # {} => (bots[b].is_active /\ ~bots[b].is_exclusive)

\* A callback was refused for a bot that holds as many campaigns as it may.
C34_WitnessFullBotRefused ==
  /\ connOp.op = "telegram_callback"
  /\ connOp.code = 400
  /\ \E b \in DOMAIN bots :
       /\ Cardinality(connected_campaigns(b)) = bots[b].max_campaigns
       /\ connOp.campaign_id \notin connected_campaigns(b)
       /\ connOp.campaign_id \in Campaigns
       /\ managed_telegram_bot_id[connOp.campaign_id] = 0
       /\ status[connOp.campaign_id] = "PENDING"

\* Connected rows of a campaign and platform.
ConnectedRows(c, platform) == {r \in rows_of(c, platform) : r.is_connected}

\* C35: for every campaign and platform at most one PlatformConnection row
\* is connected, and a request to initiate a connection for a platform that
\* is already connected for the campaign is rejected.
C35_OneConnectedRow ==
  /\ [](\A c \in Campaigns, platform \in PlatformType :
          Cardinality(ConnectedRows(c, platform)) <= 1)
  /\ [][\A c \in Campaigns, platform \in PlatformType :
          (/\ connOp' # connOp
           /\ connOp' = ConnOp("initiate", c, platform, connOp'.code)
           /\ ConnectedRows(c, platform) # {}) =>
            connOp'.code = 400]_vars


\* The stage each phase tries first.
FirstPriority(campaign_phase) ==
  IF campaign_phase = "early" THEN "intro"
  ELSE IF campaign_phase = "mid" THEN "deep_dive"
  ELSE "cta"

\* the posts i, i+1, i+2 of the history all carry the first-priority stage
ThreeFirstPriority(i) ==
  \A j \in i..(i + 2) : social_posts[j] = FirstPriority(current_phase)

\* C36: while the campaign stays in one phase and every generated post is
\* stored, no three consecutive posts carry the phase's first-priority
\* stage, and a stage resolved from a window holding two first-priority
\* posts is a lower-priority one.
C36_NoThreeFirstPriority ==
  /\ [](\A i \in 1..(Len(social_posts) - 2) : ~ThreeFirstPriority(i))
  /\ [][\A g \in Generators :
          (/\ generating[g].pc = "idle"
           /\ generating'[g].pc = "generate"
           /\ stage_count(get_recent_posts(social_posts),
                          FirstPriority(current_phase)) >= 2)
          => generating'[g].stage # FirstPriority(current_phase)]_vars

\* A post whose window was read after every earlier post was stored never
\* completes a run of three first-priority posts.
SequentialNoThreeFirstPriority ==
  \A i \in 1..(Len(social_posts) - 2) :
    read_at[i + 2] = i + 1 => ~ThreeFirstPriority(i)


============================================================================
